---------------------------- MODULE Spec2Model ----------------------------
(***************************************************************************)
(* A model of sokosolve (solver.c, solver_types.h, bitset.h): the context  *)
(* arena, the level parser with its static analyses, and the two search    *)
(* drivers solve_bfs and solve_astar, one step per generated child.        *)
(*                                                                         *)
(* Bit-vectors are modelled as the set of positions whose bit is set.      *)
(* Pointers into state_cache and bitset_cache are modelled as 0-based      *)
(* offsets; NULL is -1; slot i of a C array is element i + 1 of the        *)
(* sequence that models it.                                                *)
(***************************************************************************)
EXTENDS Integers, Sequences, FiniteSets, TLC

(***************************************************************************)
(* Program constants                                                       *)
(***************************************************************************)
BITS_CNT == 64
LenMod == 256
PosMod == 65536

\* a faulty variant of Actions: the letters in the order "lrudLRUD", which
\* does not match the order of directions[]
ActionsSwapped == <<"l", "r", "u", "d", "L", "R", "U", "D">>

\* "lrduLRDU": index k (0-based) is Actions[k + 1]
Actions == <<"l", "r", "d", "u", "L", "R", "D", "U">>

NUL == "NUL"

NULL == -1

\* dir_t directions[] = {-1, 1, width, -width}
directions(width) == <<-1, 1, width, -width>>

(***************************************************************************)
(* bitset.h                                                                *)
(***************************************************************************)
set_bit(bitset, pos) == bitset \cup {pos}

clear_bit(bitset, pos) == bitset \ {pos}

get_bit(bitset, pos) == pos \in bitset

bitset_covers_all(under, cover) == under \ cover = {}

bitset_covers_any(under, cover) == under \cap cover # {}

bitset_equals(first, second) == first = second

bitset_xor(first, second) == (first \ second) \cup (second \ first)

(***************************************************************************)
(* create_context                                                          *)
(***************************************************************************)
create_context(raw_w, raw_h, capacity) ==
    LET width  == (raw_w + 2) % LenMod
        height == (raw_h + 2) % LenMod
    IN  [ width       |-> width,
          height      |-> height,
          area        |-> (width * height) % PosMod,
          bitset_size |-> ((raw_w + 2) * (raw_h + 2) + BITS_CNT - 1) \div BITS_CNT,
          state_count |-> capacity + 1 ]

\* every bit of a bit-vector of the context (memset(~0) sets them all)
AllBits(context) == 0 .. (context.bitset_size * BITS_CNT - 1)

(***************************************************************************)
(* check_all_2x2_deadlock                                                  *)
(***************************************************************************)
\* the inner loop over the 2x2 neighbourhood of one window: the final
\* value of "unsafe"
RECURSIVE Window2x2Unsafe(_, _, _, _, _)
Window2x2Unsafe(context, problem, position, index, unsafe) ==
    IF index = 4 THEN unsafe
    ELSE LET neighborhood == <<0, 1, context.width, context.width + 1>>
             neighbor  == position + neighborhood[index + 1]
             has_crate == get_bit(problem.crates, neighbor)
             has_wall  == get_bit(problem.walls, neighbor)
         IN  IF ~(has_crate \/ has_wall) THEN 0
             ELSE Window2x2Unsafe(context, problem, position, index + 1,
                    IF has_crate /\ ~get_bit(problem.goals, neighbor)
                    THEN unsafe + 1 ELSE unsafe)

\* a faulty variant of check_all_2x2_deadlock: the windows that touch the
\* outer ring are not scanned
check_all_2x2_deadlock_inner(context, problem) ==
    \E y \in 1 .. context.height - 3 : \E x \in 1 .. context.width - 3 :
        Window2x2Unsafe(context, problem, y * context.width + x, 0, 0) > 0

check_all_2x2_deadlock(context, problem) ==
    \E y \in 0 .. context.height - 2 : \E x \in 0 .. context.width - 2 :
        Window2x2Unsafe(context, problem, y * context.width + x, 0, 0) > 0

(***************************************************************************)
(* generate_deadlock_map                                                   *)
(***************************************************************************)
\* a faulty variant of DeadlockChild: the cell beyond "next", where the
\* player has to stand to push, is not looked at
DeadlockChildIgnoringBeyond(context, problem, m, current, index) ==
    LET direction == directions(context.width)[index + 1]
        next   == current + direction
        cost   == (m.heuristics[current + 1] + 1) % PosMod
    IN  IF get_bit(problem.walls, next) THEN m
        ELSE IF ~get_bit(m.deadlocks, next) /\ m.heuristics[next + 1] <= cost THEN m
        ELSE [ m EXCEPT !.queue = Append(@, next),
                        !.deadlocks = clear_bit(@, next),
                        !.heuristics[next + 1] = cost,
                        !.peak = IF Len(m.queue) + 1 > @ THEN Len(m.queue) + 1 ELSE @ ]

\* One pass of the inner while loop: m = [queue, front, deadlocks, heuristics].
\* The queue has room for "area" entries: once an entry has been written
\* past its end the pass is not followed any further.
RECURSIVE DeadlockScan(_, _, _)
DeadlockChild(context, problem, m, current, index) ==
    LET direction == directions(context.width)[index + 1]
        next   == current + direction
        cost   == (m.heuristics[current + 1] + 1) % PosMod
        beyond == next + direction
    IN  IF get_bit(problem.walls, next) THEN m
        ELSE IF ~get_bit(m.deadlocks, next) /\ m.heuristics[next + 1] <= cost THEN m
        ELSE IF get_bit(problem.walls, beyond) THEN m
        ELSE [ m EXCEPT !.queue = Append(@, next),
                        !.deadlocks = clear_bit(@, next),
                        !.heuristics[next + 1] = cost,
                        !.peak = IF Len(m.queue) + 1 > @ THEN Len(m.queue) + 1 ELSE @ ]

DeadlockScan(context, problem, m) ==
    IF m.front >= Len(m.queue) \/ m.peak > context.area THEN m
    ELSE LET current == m.queue[m.front + 1]
             m0 == [m EXCEPT !.front = @ + 1]
             m1 == DeadlockChild(context, problem, m0, current, 0)
             m2 == DeadlockChild(context, problem, m1, current, 1)
             m3 == DeadlockChild(context, problem, m2, current, 2)
             m4 == DeadlockChild(context, problem, m3, current, 3)
         IN  DeadlockScan(context, problem, m4)

RECURSIVE DeadlockGoals(_, _, _, _)
DeadlockGoals(context, problem, m, position) ==
    IF position >= context.area THEN m
    ELSE IF get_bit(problem.goals, position)
         THEN DeadlockGoals(context, problem,
                DeadlockScan(context, problem,
                    [ m EXCEPT !.queue = <<position>>,
                               !.front = 0,
                               !.deadlocks = clear_bit(@, position),
                               !.heuristics[position + 1] = 0,
                               !.peak = IF @ < 1 THEN 1 ELSE @ ]),
                position + 1)
         ELSE DeadlockGoals(context, problem, m, position + 1)

\* the maps after generate_deadlock_map; "peak" is the largest number of
\* entries the queue ever held
generate_deadlock_map(context, problem) ==
    DeadlockGoals(context, problem,
        [ queue      |-> <<>>,
          front      |-> 0,
          deadlocks  |-> AllBits(context),
          heuristics |-> [p \in 1 .. context.area |-> context.area],
          peak       |-> 0 ],
        0)

(***************************************************************************)
(* check_reachability                                                      *)
(***************************************************************************)
\* a faulty variant of ReachPush: a neighbour is pushed whether it was
\* marked as reached or not
RECURSIVE ReachPushUnmarked(_, _, _, _, _)
ReachPushUnmarked(context, walls, r, current, index) ==
    IF index = 4 THEN r
    ELSE LET next == current + directions(context.width)[index + 1]
         IN  IF get_bit(walls, next)
             THEN ReachPushUnmarked(context, walls, r, current, index + 1)
             ELSE ReachPushUnmarked(context, walls,
                    [ r EXCEPT !.stack = Append(@, next),
                               !.peak = IF Len(r.stack) + 1 > @
                                        THEN Len(r.stack) + 1 ELSE @ ],
                    current, index + 1)

\* pushes of the four neighbours of "current" onto the stack
RECURSIVE ReachPush(_, _, _, _, _)
ReachPush(context, walls, r, current, index) ==
    IF index = 4 THEN r
    ELSE LET next == current + directions(context.width)[index + 1]
         IN  IF get_bit(walls, next) \/ get_bit(r.reach, next)
             THEN ReachPush(context, walls, r, current, index + 1)
             ELSE ReachPush(context, walls,
                    [ r EXCEPT !.stack = Append(@, next),
                               !.peak = IF Len(r.stack) + 1 > @
                                        THEN Len(r.stack) + 1 ELSE @ ],
                    current, index + 1)

\* the while loop over the stack, which has room for "area" entries: once
\* an entry has been written past its end the loop is not followed any
\* further
RECURSIVE ReachFlood(_, _, _)
ReachFlood(context, walls, r) ==
    IF Len(r.stack) = 0 \/ r.peak > context.area THEN r
    ELSE LET current == r.stack[Len(r.stack)]
             popped  == [ r EXCEPT !.stack = SubSeq(@, 1, Len(@) - 1),
                                   !.reach = set_bit(@, current) ]
         IN  ReachFlood(context, walls, ReachPush(context, walls, popped, current, 0))

\* the reach map and the stack's peak size
reach_map(context, walls, player) ==
    ReachFlood(context, walls, [stack |-> <<player>>, reach |-> {}, peak |-> 1])

\* a faulty variant of check_reachability: the crates that stand on a goal
\* have to be reached as well
check_reachability_every_object(context, crates, goals, walls, player) ==
    LET reach == reach_map(context, walls, player).reach
    IN  bitset_covers_all(crates \cup goals, reach)

check_reachability(context, crates, goals, walls, player) ==
    LET reach == reach_map(context, walls, player).reach
        free_objects == bitset_xor(crates, goals)
    IN  bitset_covers_all(free_objects, reach)

(***************************************************************************)
(* parse_problem                                                           *)
(***************************************************************************)
\* level_str[index] of the C string: the text is NUL-terminated
CharAt(level_str, index) ==
    IF index < Len(level_str) THEN level_str[index + 1] ELSE NUL

\* the switch of parse_problem: the tile a character stands for, or "skip"
\* for the default branch
TileOf(level_char) ==
    CASE level_char \in {"W", "w"} -> "wall"
      [] level_char = "."          -> "empty"
      [] level_char = "0"          -> "goal"
      [] level_char = "1"          -> "crate"
      [] level_char \in {"A", "a"} -> "player"
      [] level_char \in {"g", "G"} -> "crate_goal"
      [] level_char = "+"          -> "player_goal"
      [] OTHER                     -> "skip"

\* a faulty variant of NextTile: a character outside the tile alphabet is
\* not skipped, it takes the cell
NextTileNoSkip(level_str, index) == index

\* the do-while loop: the index of the first character at or after "index"
\* that is a tile or the NUL
RECURSIVE NextTile(_, _)
NextTile(level_str, index) ==
    IF CharAt(level_str, index) = NUL THEN index
    ELSE IF TileOf(CharAt(level_str, index)) = "skip"
         THEN NextTile(level_str, index + 1)
         ELSE index

\* a faulty variant of PutTile: a player on a goal is not counted as a goal
PutTilePlayerGoalUncounted(p, tile) ==
    LET position == p.position
        is_goal   == tile \in {"goal", "crate_goal", "player_goal"}
        is_crate  == tile \in {"crate", "crate_goal"}
        is_player == tile \in {"player", "player_goal"}
    IN  [ p EXCEPT
            !.walls  = IF tile = "wall" THEN @ ELSE clear_bit(@, position),
            !.goals  = IF is_goal THEN set_bit(@, position) ELSE @,
            !.crates = IF is_crate THEN set_bit(@, position) ELSE @,
            !.player = IF is_player THEN position ELSE @,
            !.goal_count   = IF tile \in {"goal", "crate_goal"}
                             THEN (@ + 1) % PosMod ELSE @,
            !.crate_count  = IF is_crate THEN (@ + 1) % PosMod ELSE @,
            !.player_count = IF is_player THEN (@ + 1) % PosMod ELSE @ ]

\* the effect of one tile on the cell "position"
PutTile(p, tile) ==
    LET position == p.position
        is_goal   == tile \in {"goal", "crate_goal", "player_goal"}
        is_crate  == tile \in {"crate", "crate_goal"}
        is_player == tile \in {"player", "player_goal"}
    IN  [ p EXCEPT
            !.walls  = IF tile = "wall" THEN @ ELSE clear_bit(@, position),
            !.goals  = IF is_goal THEN set_bit(@, position) ELSE @,
            !.crates = IF is_crate THEN set_bit(@, position) ELSE @,
            !.player = IF is_player THEN position ELSE @,
            !.goal_count   = IF is_goal THEN (@ + 1) % PosMod ELSE @,
            !.crate_count  = IF is_crate THEN (@ + 1) % PosMod ELSE @,
            !.player_count = IF is_player THEN (@ + 1) % PosMod ELSE @ ]

\* the two nested for loops over the interior cells (j, i), until the text
\* ends: p = [position, index, walls, goals, crates, player, counts]
RECURSIVE ParseCells(_, _, _, _, _)
ParseCells(context, level_str, p, j, i) ==
    IF j >= context.height THEN p
    ELSE IF i >= context.width
         THEN ParseCells(context, level_str,
                         [p EXCEPT !.position = @ + 2], j + 1, 2)
    ELSE LET at == NextTile(level_str, p.index)
             level_char == CharAt(level_str, at)
         IN  IF level_char = NUL THEN [p EXCEPT !.index = at + 1]
             ELSE ParseCells(context, level_str,
                    [ PutTile(p, TileOf(level_char)) EXCEPT
                        !.index = at + 1, !.position = p.position + 1 ],
                    j, i + 1)

\* a faulty variant of ParseStart: the goals found are added to the count
\* the problem already holds
ParseStartKeepsCount(context, problem) ==
    [ position |-> context.width + 1, index |-> 0,
      walls |-> AllBits(context), goals |-> {}, crates |-> {},
      player |-> problem.player,
      goal_count |-> problem.goal_count, crate_count |-> 0, player_count |-> 0 ]

\* parse_problem before its loops: the three memsets, the cursor on cell
\* (1, 1), the counters at zero; problem->player is not assigned
ParseStart(context, problem) ==
    [ position |-> context.width + 1, index |-> 0,
      walls |-> AllBits(context), goals |-> {}, crates |-> {},
      player |-> problem.player,
      goal_count |-> 0, crate_count |-> 0, player_count |-> 0 ]

\* the problem after parse_problem(context, problem, level_str)
parse_problem(context, problem, level_str) ==
    LET p == ParseCells(context, level_str, ParseStart(context, problem), 2, 2)
        parsed == [ problem EXCEPT !.walls = p.walls, !.goals = p.goals,
                                   !.crates = p.crates, !.player = p.player,
                                   !.goal_count = p.goal_count ]
        compilable == /\ p.player_count = 1
                      /\ p.goal_count = p.crate_count
                      /\ ~bitset_equals(p.crates, p.goals)
        valid1 == compilable /\ ~check_all_2x2_deadlock(context, parsed)
        maps   == generate_deadlock_map(context, parsed)
        mapped == IF valid1
                  THEN [ parsed EXCEPT !.deadlocks = maps.deadlocks,
                                       !.heuristics = maps.heuristics ]
                  ELSE parsed
        valid2 == valid1 /\ ~bitset_covers_any(mapped.crates, mapped.deadlocks)
        valid3 == valid2 /\ check_reachability(context, mapped.crates,
                                mapped.goals, mapped.walls, mapped.player)
    IN  [ mapped EXCEPT !.compilable = compilable,
                        !.potentially_solvable = valid3 ]

\* the problem after allocate_problem: the buffers hold nothing yet
allocate_problem(context) ==
    [ goal_count |-> 0, player |-> 0,
      walls |-> {}, goals |-> {}, crates |-> {}, deadlocks |-> {},
      heuristics |-> [p \in 1 .. context.area |-> 0],
      compilable |-> FALSE, potentially_solvable |-> FALSE ]

(***************************************************************************)
(* check_single_2x2_deadlock                                               *)
(***************************************************************************)
Abs(x) == IF x < 0 THEN -x ELSE x

\* a faulty variant of Ortho2x2: a closed window counts as a deadlock even
\* when all its crates are on goals
Ortho2x2IgnoringGoals(problem, crates, position, p10, unsafe, ortho) ==
    LET p01 == position + ortho
        p11 == p10 + ortho
    IN  /\ get_bit(crates, p01) \/ get_bit(problem.walls, p01)
        /\ get_bit(crates, p11) \/ get_bit(problem.walls, p11)

\* a faulty variant of Ortho2x2: one blocked cell of the orthogonal pair is
\* taken to close the window
Ortho2x2EitherCell(problem, crates, position, p10, unsafe, ortho) ==
    LET p01 == position + ortho
        c01 == get_bit(crates, p01)
        w01 == get_bit(problem.walls, p01)
        unsafe1 == IF c01 /\ ~get_bit(problem.goals, p01) THEN unsafe + 1 ELSE unsafe
        p11 == p10 + ortho
        c11 == get_bit(crates, p11)
        w11 == get_bit(problem.walls, p11)
        unsafe2 == IF c11 /\ ~get_bit(problem.goals, p11) THEN unsafe1 + 1 ELSE unsafe1
    IN  /\ (c01 \/ w01) \/ (c11 \/ w11)
        /\ unsafe2 > 0

\* one iteration of the loop over the two orthogonal directions: TRUE when
\* it returns true
Ortho2x2(problem, crates, position, p10, unsafe, ortho) ==
    LET p01 == position + ortho
        c01 == get_bit(crates, p01)
        w01 == get_bit(problem.walls, p01)
        unsafe1 == IF c01 /\ ~get_bit(problem.goals, p01) THEN unsafe + 1 ELSE unsafe
        p11 == p10 + ortho
        c11 == get_bit(crates, p11)
        w11 == get_bit(problem.walls, p11)
        unsafe2 == IF c11 /\ ~get_bit(problem.goals, p11) THEN unsafe1 + 1 ELSE unsafe1
    IN  /\ c01 \/ w01
        /\ c11 \/ w11
        /\ unsafe2 > 0

\* a faulty variant of check_single_2x2_deadlock: only the first of the two
\* orthogonal directions is looked at
check_single_2x2_deadlock_one_side(context, problem, crates, position, direction) ==
    LET ortho0 == context.width + 1 - Abs(direction)
        unsafe0 == IF get_bit(problem.goals, position) THEN 0 ELSE 1
        p10 == position + direction
        c10 == get_bit(crates, p10)
        w10 == get_bit(problem.walls, p10)
        unsafe == IF c10 /\ ~get_bit(problem.goals, p10) THEN unsafe0 + 1 ELSE unsafe0
    IN  /\ c10 \/ w10
        /\ Ortho2x2(problem, crates, position, p10, unsafe, ortho0)

check_single_2x2_deadlock(context, problem, crates, position, direction) ==
    LET ortho0 == context.width + 1 - Abs(direction)
        unsafe0 == IF get_bit(problem.goals, position) THEN 0 ELSE 1
        p10 == position + direction
        c10 == get_bit(crates, p10)
        w10 == get_bit(problem.walls, p10)
        unsafe == IF c10 /\ ~get_bit(problem.goals, p10) THEN unsafe0 + 1 ELSE unsafe0
    IN  /\ c10 \/ w10
        /\ \/ Ortho2x2(problem, crates, position, p10, unsafe, ortho0)
           \/ Ortho2x2(problem, crates, position, p10, unsafe, -ortho0)

(***************************************************************************)
(* The heap of solve_astar.  A heap is the pair h = [min_heap, states]:    *)
(* the array of state pointers and the state_cache holding the states'     *)
(* priority and heap_index.                                                *)
(***************************************************************************)
\* write slot k (0-based) of an array whose first Len slots were ever written
WriteSlot(array, k, v) ==
    IF k < Len(array) THEN [array EXCEPT ![k + 1] = v] ELSE Append(array, v)

\* a faulty variant of SwapNodes: the pointers are swapped, the heap_index
\* of the two states is left as it was
SwapNodesStaleIndex(h, upper_index, lower_index) ==
    LET upper == h.min_heap[upper_index + 1]
        lower == h.min_heap[lower_index + 1]
    IN  [ min_heap |-> [h.min_heap EXCEPT ![upper_index + 1] = lower,
                                          ![lower_index + 1] = upper],
          states   |-> h.states ]

SwapNodes(h, upper_index, lower_index) ==
    LET upper == h.min_heap[upper_index + 1]
        lower == h.min_heap[lower_index + 1]
    IN  [ min_heap |-> [h.min_heap EXCEPT ![upper_index + 1] = lower,
                                          ![lower_index + 1] = upper],
          states   |-> [h.states EXCEPT ![lower + 1].heap_index = upper_index,
                                        ![upper + 1].heap_index = lower_index] ]

\* a faulty variant of heapify_bottomup: a node also passes a parent of
\* equal priority
RECURSIVE heapify_bottomup_nonstrict(_, _)
heapify_bottomup_nonstrict(h, node_index) ==
    IF node_index = 0 THEN h
    ELSE LET parent_index == node_index \div 2
             last   == h.min_heap[node_index + 1]
             parent == h.min_heap[parent_index + 1]
         IN  IF h.states[last + 1].priority <= h.states[parent + 1].priority
             THEN heapify_bottomup_nonstrict(SwapNodes(h, parent_index, node_index),
                                             parent_index)
             ELSE h

RECURSIVE heapify_bottomup(_, _)
heapify_bottomup(h, node_index) ==
    IF node_index = 0 THEN h
    ELSE LET parent_index == node_index \div 2
             last   == h.min_heap[node_index + 1]
             parent == h.min_heap[parent_index + 1]
         IN  IF h.states[last + 1].priority < h.states[parent + 1].priority
             THEN heapify_bottomup(SwapNodes(h, parent_index, node_index), parent_index)
             ELSE h

\* a faulty variant of heapify_topdown: the second child is never looked at
RECURSIVE heapify_topdown_first_child(_, _, _)
heapify_topdown_first_child(h, root_index, size) ==
    LET child1_index == root_index * 2
        prio(i) == h.states[h.min_heap[i + 1] + 1].priority
    IN  IF child1_index >= size THEN h
        ELSE IF prio(child1_index) < prio(root_index)
             THEN heapify_topdown_first_child(SwapNodes(h, root_index, child1_index),
                                              child1_index, size)
             ELSE h

RECURSIVE heapify_topdown(_, _, _)
heapify_topdown(h, root_index, size) ==
    LET child1_index == root_index * 2
        child2_index == child1_index + 1
        prio(i) == h.states[h.min_heap[i + 1] + 1].priority
        min_child_index ==
            IF child2_index < size /\ prio(child2_index) < prio(child1_index)
            THEN child2_index ELSE child1_index
    IN  IF child1_index >= size THEN h
        ELSE IF prio(min_child_index) < prio(root_index)
             THEN heapify_topdown(SwapNodes(h, root_index, min_child_index),
                                  min_child_index, size)
             ELSE h

\* a faulty variant of heap_insert: the new leaf is not sifted up
heap_insert_unsifted(h, element, size) ==
    [ min_heap |-> WriteSlot(h.min_heap, size, element),
      states   |-> [h.states EXCEPT ![element + 1].heap_index = size] ]

\* heap_insert(min_heap, element, &size): the heap afterwards (size + 1 entries)
heap_insert(h, element, size) ==
    LET placed == [ min_heap |-> WriteSlot(h.min_heap, size, element),
                    states   |-> [h.states EXCEPT ![element + 1].heap_index = size] ]
    IN  IF size > 0 THEN heapify_bottomup(placed, size) ELSE placed

\* a faulty variant of heap_pop: the last leaf is not moved to the root, so
\* the root stays in the heap and the last leaf is lost
heap_pop_keeps_root(h, size) ==
    [heap |-> h, root |-> h.min_heap[1]]

\* heap_pop(min_heap, &size): the heap afterwards (size - 1 entries) and
\* the state returned
heap_pop(h, size) ==
    LET last_index == size - 1
        last == h.min_heap[last_index + 1]
        root == h.min_heap[1]
        moved == [ min_heap |-> [h.min_heap EXCEPT ![1] = last],
                   states   |-> [h.states EXCEPT ![last + 1].heap_index = 0] ]
    IN  IF last_index = 0
        THEN [heap |-> h, root |-> h.min_heap[1]]
        ELSE [heap |-> heapify_topdown(moved, 0, last_index), root |-> root]

(***************************************************************************)
(* Inputs                                                                  *)
(***************************************************************************)
\* the five levels of test_cases/tests_4x4.txt, row by row
tests_4x4 ==
    { <<".", ".", ".", ".", ".", ".", "+", ".", ".", "1", "1", ".", ".", ".", ".", ".">>,
      <<".", ".", "0", ".", ".", ".", "+", ".", ".", "1", ".", "1", ".", "W", "W", ".">>,
      <<".", "1", "0", ".", ".", ".", "A", ".", "0", "1", "1", "0", "0", "1", "1", "0">>,
      <<".", ".", "0", ".", ".", ".", "+", ".", ".", "1", "1", ".", ".", ".", ".", ".">>,
      <<".", "W", "g", ".", "g", "W", ".", ".", ".", "W", "W", "W", "A", ".", "1", "0">> }

\* texts for a 3 x 2 level that exercise the parser: no player, two
\* players, more crates than goals, more goals than crates, every crate on
\* its goal, characters outside the tile alphabet, a text that ends early,
\* a text with tiles to spare, the alternative letters, a player on a goal
parser_cases ==
    { <<"1", ".", "0", ".", ".", ".">>,
      <<"A", "1", ".", "0", ".", "A">>,
      <<"A", "1", "1", ".", "0", ".">>,
      <<"A", "1", ".", "0", "0", ".">>,
      <<"A", "g", ".", ".", ".", ".">>,
      <<"a", "1", " ", "0", "x", ".", ".", ".">>,
      <<"A", "1", "0">>,
      <<"A", "1", "0", ".", ".", ".", "A", "1">>,
      <<"A", "G", "w", "1", "0", ".">>,
      <<"+", "1", ".", ".", ".", ".">> }

\* 3 x 3 levels with walls: a crate and a goal walled off from the player,
\* and a crate that has to be pushed around a wall
walled_cases ==
    { <<"A", "W", "0", ".", "W", "1", ".", "W", ".">>,
      <<"A", ".", ".", "W", "1", ".", ".", ".", "0">>,
      <<".", ".", "A", ".", "1", "W", "0", ".", ".">> }

\* bounds of the search parameters
MaxSmallCapacity == 2
LargeCapacity == 2000
MaxIterations == 2
MaxFactor == 1

\* every level of the given interior size that holds one player, "count"
\* crates and "count" goals and no wall, written in the tile alphabet
Tile(cell, player, crates, goals) ==
    IF cell = player THEN (IF cell \in goals THEN "+" ELSE "A")
    ELSE IF cell \in crates THEN (IF cell \in goals THEN "g" ELSE "1")
    ELSE IF cell \in goals THEN "0"
    ELSE "."

Placements(size, count) ==
    LET cells == 1 .. size.width * size.height
        picks == {c \in SUBSET cells : Cardinality(c) = count}
        valid == {t \in cells \X picks \X picks : t[1] \notin t[2]}
    IN  { [ width  |-> size.width,
            height |-> size.height,
            level  |-> [cell \in cells |-> Tile(cell, t[1], t[2], t[3])] ] :
          t \in valid }

OneCrateSize == [width |-> 3, height |-> 3]
TwoCrateSize == [width |-> 3, height |-> 2]

\* the levels a context of the given raw size is asked to parse
Levels ==
    [ width : {4}, height : {4}, level : tests_4x4 ]
    \cup [ width : {3}, height : {2}, level : parser_cases ]
    \cup [ width : {3}, height : {3}, level : walled_cases ]
    \cup Placements(OneCrateSize, 1)
    \cup Placements(TwoCrateSize, 2)

Sizes == { [width |-> lv.width, height |-> lv.height] : lv \in Levels }

Capacities == (0 .. MaxSmallCapacity) \cup {LargeCapacity}

(***************************************************************************)
(* The game itself, independent of the solver: the moves verify_solution   *)
(* accepts, and what exhaustive play of them can reach.  No deadlock map,  *)
(* no 2x2 test and no reachability test takes part in these definitions.   *)
(***************************************************************************)
\* the offset verify_solution's switch gives each action letter
ActionDirection(ctx, action) ==
    CASE action \in {"l", "L"} -> -1
      [] action \in {"r", "R"} -> 1
      [] action \in {"u", "U"} -> -ctx.width
      [] action \in {"d", "D"} -> ctx.width

\* verify_solution(context, problem, actions), started from the given
\* player and crates: TRUE when it returns true
RECURSIVE verify_solution(_, _, _, _, _)
verify_solution(ctx, prob, player, crates, actions) ==
    IF actions = <<>> THEN bitset_equals(crates, prob.goals)
    ELSE LET action    == Head(actions)
             direction == ActionDirection(ctx, action)
             moved     == player + direction
             new_crate_pos == moved + direction
         IN  IF get_bit(prob.walls, moved) THEN FALSE
             ELSE IF ~get_bit(crates, moved)
             THEN verify_solution(ctx, prob, moved, crates, Tail(actions))
             ELSE IF action \in {"l", "r", "u", "d"} THEN FALSE
             ELSE IF get_bit(prob.walls, new_crate_pos) THEN FALSE
             ELSE IF get_bit(crates, new_crate_pos) THEN FALSE
             ELSE verify_solution(ctx, prob, moved,
                      set_bit(clear_bit(crates, moved), new_crate_pos),
                      Tail(actions))

\* the configurations <<player, crates>> one legal move away from s
LegalMoves(ctx, prob, s) ==
    UNION { LET moved == s[1] + directions(ctx.width)[d]
                new_crate_pos == moved + directions(ctx.width)[d]
            IN  IF get_bit(prob.walls, moved) THEN {}
                ELSE IF ~get_bit(s[2], moved) THEN {<<moved, s[2]>>}
                ELSE IF get_bit(prob.walls, new_crate_pos)
                        \/ get_bit(s[2], new_crate_pos) THEN {}
                ELSE {<<moved, set_bit(clear_bit(s[2], moved), new_crate_pos)>>}
          : d \in 1 .. 4 }

\* exhaustive breadth-first play: min_moves is the depth of the first
\* layer holding a configuration with crates = goals (NULL when there is
\* none), reachable the number of configurations met
RECURSIVE Explore(_, _, _, _, _, _)
Explore(ctx, prob, frontier, seen, depth, best) ==
    IF frontier = {} THEN [min_moves |-> best, reachable |-> Cardinality(seen)]
    ELSE LET found == \E s \in frontier : bitset_equals(s[2], prob.goals)
             next  == UNION {LegalMoves(ctx, prob, s) : s \in frontier} \ seen
         IN  Explore(ctx, prob, next, seen \cup next, depth + 1,
                     IF best = NULL /\ found THEN depth ELSE best)

\* the game of a parsed problem, from the configuration parse_problem read
Game(ctx, prob) ==
    LET root == <<prob.player, prob.crates>>
    IN  IF prob.compilable
        THEN Explore(ctx, prob, {root}, {root}, 0, NULL)
        ELSE [min_moves |-> NULL, reachable |-> 0]

(***************************************************************************)
(* State                                                                   *)
(***************************************************************************)
VARIABLES
    context,        \* struct context_t: width, height, area, bitset_size, state_count
    allocated,      \* the pools of the context that are not NULL
    state_cache,    \* context->state_cache: the slots written so far
    bitset_cache,   \* context->bitset_cache: the bit-vectors written so far
    map,            \* context->map: the state pointers in the hash set
    min_heap,       \* context->min_heap: the slots written so far
    problem,        \* struct problem_t
    level_str,      \* the text last given to parse_problem
    config,         \* the arguments of the running search
    free_state,     \* locals of solve_bfs / solve_astar
    free_bits,
    current,
    heap_size,
    iterations,
    parent,
    index,
    result,         \* the result_t returned
    pc,             \* where the caller or the search is
    game,           \* history variable: the game of the parsed problem
    earlier,        \* history variable: the searches this context has run
    parses,         \* history variable: the parse_problem calls on the problem
    args,           \* history variable: the arguments given to create_context
    attempt,        \* a further problem_t allocate_problem was asked for: its
                    \* buffer fields and what became of them
    memory          \* the allocator: the pools whose request it refuses, the
                    \* requests it has refused, and the blocks it handed out
                    \* and took back for each pool

pools == <<allocated, state_cache, bitset_cache, map, min_heap>>
locals == <<free_state, free_bits, current, heap_size, iterations, parent, index>>
vars == <<context, pools, problem, level_str, config, locals, result, pc, game,
          earlier, parses, args, attempt, memory>>

\* uninitialised memory of a state slot that was never written
UnsetState ==
    [ priority |-> 0, heuristic |-> 0, cost |-> 0, parent |-> NULL,
      heap_index |-> NULL, action |-> "?", player |-> 0, crates |-> NULL ]

\* result.actions when no string is returned
NoActions == <<"NULL">>

create_result(solved, actions, iters, limit_exceeded) ==
    [ solved |-> solved, actions |-> actions, iterations |-> iters,
      limit_exceeded |-> limit_exceeded ]

NoConfig == [use_astar |-> FALSE, h_factor |-> 0, g_factor |-> 0, max_iterations |-> 0]

\* the five buffers of a problem, in the order allocate_problem asks for
\* them
ProblemBuffers == <<"walls", "goals", "crates", "deadlocks", "heuristics">>

\* no further problem was asked for
NoAttempt ==
    [ returned |-> "none", fields |-> <<>>, released |-> {}, unassigned |-> {},
      wild |-> {} ]

\* the four pools of a context, in the order allocate_context_memory asks
\* for them
PoolNames == <<"state_cache", "bitset_cache", "map", "min_heap">>

Pools == {PoolNames[k] : k \in 1 .. Len(PoolNames)}

\* an allocator that refuses nothing and has handed out no pool
FreshMemory ==
    [ refused   |-> {},
      refusals  |-> 0,
      mallocs   |-> [name \in Pools |-> 0],
      frees     |-> [name \in Pools |-> 0] ]

\* what no call has touched yet: the pools are NULL, no text was read, no
\* search was run
Untouched ==
    /\ memory = FreshMemory
    /\ attempt = NoAttempt
    /\ allocated = {}
    /\ state_cache = <<>>
    /\ bitset_cache = <<>>
    /\ map = {}
    /\ min_heap = <<>>
    /\ level_str = <<>>
    /\ config = NoConfig
    /\ free_state = 0
    /\ free_bits = 0
    /\ current = 0
    /\ heap_size = 0
    /\ iterations = 0
    /\ parent = NULL
    /\ index = 0
    /\ result = create_result(FALSE, NoActions, 0, FALSE)
    /\ game = [min_moves |-> NULL, reachable |-> 0]
    /\ earlier = <<>>
    /\ parses = 0

Init ==
    /\ \E size \in Sizes, capacity \in Capacities :
          /\ args = [raw_w |-> size.width, raw_h |-> size.height,
                     capacity |-> capacity]
          /\ context = create_context(size.width, size.height, capacity)
    /\ problem = allocate_problem(context)
    /\ pc = "allocated"
    /\ Untouched

(***************************************************************************)
(* parse_problem, as called by run_test_case                               *)
(***************************************************************************)
Parse ==
    /\ pc = "allocated"
    /\ \E lv \in Levels :
          /\ lv.width + 2 = context.width
          /\ lv.height + 2 = context.height
          /\ level_str' = lv.level
          /\ problem' = parse_problem(context, problem, lv.level)
    /\ game' = Game(context, problem')
    /\ parses' = parses + 1
    /\ pc' = "parsed"
    /\ UNCHANGED <<args, attempt, memory, context, pools, config, locals, result, earlier>>

(***************************************************************************)
(* Child generation, shared by solve_bfs and solve_astar                   *)
(***************************************************************************)
\* state.crates of the root: the problem's own bit-vector, not a slot of
\* bitset_cache
PROBLEM_CRATES == -1

\* the bit-vector a crates pointer refers to
Deref(bits, prob, crates) ==
    IF crates = PROBLEM_CRATES THEN prob.crates
    ELSE bits[(crates \div context.bitset_size) + 1]

\* a faulty variant of expand_child: the player may step onto a wall
expand_child_through_walls(ctx, prob, par_player, par_crates, idx) ==
    LET direction == directions(ctx.width)[idx + 1]
        player == (par_player + direction) % PosMod
        next   == (player + direction) % PosMod
        pushes == get_bit(par_crates, player)
        skip   == /\ pushes
                  /\ \/ get_bit(prob.walls, next)
                     \/ get_bit(par_crates, next)
                     \/ get_bit(prob.deadlocks, next)
                     \/ check_single_2x2_deadlock(ctx, prob, par_crates, next,
                                                  direction)
        changed == ~skip /\ pushes
    IN  [skip |-> skip, changed |-> changed, player |-> player,
         crates |-> IF changed THEN clear_bit(set_bit(par_crates, next), player)
                    ELSE par_crates,
         action |-> IF changed THEN Actions[idx + 5] ELSE Actions[idx + 1]]

\* a faulty variant of expand_child: a push keeps the lowercase letter
expand_child_unmarked(ctx, prob, par_player, par_crates, idx) ==
    LET direction == directions(ctx.width)[idx + 1]
        player == (par_player + direction) % PosMod
        next   == (player + direction) % PosMod
        skip   == \/ get_bit(prob.walls, player)
                  \/ /\ get_bit(par_crates, player)
                     /\ \/ get_bit(prob.walls, next)
                        \/ get_bit(par_crates, next)
                        \/ get_bit(prob.deadlocks, next)
                        \/ check_single_2x2_deadlock(ctx, prob, par_crates, next,
                                                     direction)
        changed == ~skip /\ get_bit(par_crates, player)
    IN  [skip |-> skip, changed |-> changed, player |-> player,
         crates |-> IF changed THEN clear_bit(set_bit(par_crates, next), player)
                    ELSE par_crates,
         action |-> Actions[idx + 1]]

\* a faulty variant of expand_child: a crate may be pushed onto another
\* crate
expand_child_onto_crates(ctx, prob, par_player, par_crates, idx) ==
    LET direction == directions(ctx.width)[idx + 1]
        player == (par_player + direction) % PosMod
        next   == (player + direction) % PosMod
        skip   == \/ get_bit(prob.walls, player)
                  \/ /\ get_bit(par_crates, player)
                     /\ \/ get_bit(prob.walls, next)
                        \/ get_bit(prob.deadlocks, next)
                        \/ check_single_2x2_deadlock(ctx, prob, par_crates, next,
                                                     direction)
        changed == ~skip /\ get_bit(par_crates, player)
    IN  [skip |-> skip, changed |-> changed, player |-> player,
         crates |-> IF changed THEN clear_bit(set_bit(par_crates, next), player)
                    ELSE par_crates,
         action |-> IF changed THEN Actions[idx + 5] ELSE Actions[idx + 1]]

\* a faulty variant of expand_child: a crate may be pushed onto a cell of
\* the deadlock map
expand_child_onto_deadlocks(ctx, prob, par_player, par_crates, idx) ==
    LET direction == directions(ctx.width)[idx + 1]
        player == (par_player + direction) % PosMod
        next   == (player + direction) % PosMod
        skip   == \/ get_bit(prob.walls, player)
                  \/ /\ get_bit(par_crates, player)
                     /\ \/ get_bit(prob.walls, next)
                        \/ get_bit(par_crates, next)
                        \/ check_single_2x2_deadlock(ctx, prob, par_crates, next,
                                                     direction)
        changed == ~skip /\ get_bit(par_crates, player)
    IN  [skip |-> skip, changed |-> changed, player |-> player,
         crates |-> IF changed THEN clear_bit(set_bit(par_crates, next), player)
                    ELSE par_crates,
         action |-> IF changed THEN Actions[idx + 5] ELSE Actions[idx + 1]]

\* the body of "for each direction" up to the goal test: what the move in
\* direction "idx" from the parent "par" does.  skip: the loop continues.
expand_child(ctx, prob, par_player, par_crates, idx) ==
    LET direction == directions(ctx.width)[idx + 1]
        player == (par_player + direction) % PosMod
        next   == (player + direction) % PosMod
        pushes == get_bit(par_crates, player)
    IN  IF get_bit(prob.walls, player)
        THEN [skip |-> TRUE, changed |-> FALSE, player |-> player,
              crates |-> par_crates, action |-> Actions[idx + 1]]
        ELSE IF ~pushes
        THEN [skip |-> FALSE, changed |-> FALSE, player |-> player,
              crates |-> par_crates, action |-> Actions[idx + 1]]
        ELSE IF \/ get_bit(prob.walls, next)
                \/ get_bit(par_crates, next)
                \/ get_bit(prob.deadlocks, next)
                \/ check_single_2x2_deadlock(ctx, prob, par_crates, next, direction)
        THEN [skip |-> TRUE, changed |-> FALSE, player |-> player,
              crates |-> par_crates, action |-> Actions[idx + 1]]
        ELSE [skip |-> FALSE, changed |-> TRUE, player |-> player,
              crates |-> clear_bit(set_bit(par_crates, next), player),
              action |-> Actions[idx + 5]]

\* the backtracking loop: the actions written at solution[0 .. idx] by
\* walking the parent pointers from "from"; "!" stands for a read through
\* a NULL parent
RECURSIVE Backtrack(_, _, _)
Backtrack(states, from, idx) ==
    IF idx < 0 THEN <<>>
    ELSE IF from = NULL THEN <<"!">>
    ELSE Append(Backtrack(states, states[from + 1].parent, idx - 1),
                states[from + 1].action)

\* a faulty variant of Solution: the string is filled from the front, so
\* the actions come out in the order the parent pointers are walked
SolutionBackwards(states, par, action, cost) ==
    LET forward == Append(Backtrack(states, par, cost - 2), action)
    IN  [k \in 1 .. Len(forward) |-> forward[Len(forward) + 1 - k]]

\* the solution string of cost characters built at the goal test
Solution(states, par, action, cost) ==
    Append(Backtrack(states, par, cost - 2), action)

\* a faulty variant of SameKey: the crates pointers are compared, not the
\* bit-vectors they point to
SameKeyCratesPointer(states, bits, prob, a, b) ==
    /\ states[a + 1].player = states[b + 1].player
    /\ states[a + 1].crates = states[b + 1].crates

\* a faulty variant of SameKey: the player alone is compared
SameKeyPlayerOnly(states, bits, prob, a, b) ==
    states[a + 1].player = states[b + 1].player

\* state_compare = 0: same player and same crates contents
SameKey(states, bits, prob, a, b) ==
    /\ states[a + 1].player = states[b + 1].player
    /\ Deref(bits, prob, states[a + 1].crates) = Deref(bits, prob, states[b + 1].crates)

\* "continue" / the end of the for body
NextDirection ==
    /\ index' = index + 1
    /\ pc' = IF index = 3 THEN "loop" ELSE "child"

Return(r) ==
    /\ result' = r
    /\ pc' = "done"

(***************************************************************************)
(* allocate_context_memory and free_context.  a = [ok, allocated, mallocs,  *)
(* refusals]: whether the function is still running, the pools that are    *)
(* not NULL, the blocks malloc has handed out for each pool and the        *)
(* requests it has refused.                                                *)
(***************************************************************************)
\* a faulty variant of AllocatePool: the pool is allocated whether or not
\* the context already holds one
AllocatePoolUnguarded(a, name, wanted) ==
    IF ~a.ok \/ ~wanted THEN a
    ELSE IF name \in memory.refused
         THEN [a EXCEPT !.ok = FALSE, !.refusals = @ + 1]
    ELSE [a EXCEPT !.allocated = @ \cup {name}, !.mallocs[name] = @ + 1]

\* one "if(!context->pool){ context->pool = malloc(..); if(!context->pool)
\* return false; }"
AllocatePool(a, name, wanted) ==
    IF ~a.ok \/ ~wanted \/ name \in a.allocated THEN a
    ELSE IF name \in memory.refused
         THEN [a EXCEPT !.ok = FALSE, !.refusals = @ + 1]
    ELSE [a EXCEPT !.allocated = @ \cup {name}, !.mallocs[name] = @ + 1]

allocate_context_memory(allocate_heap) ==
    LET a0 == [ok |-> TRUE, allocated |-> allocated, mallocs |-> memory.mallocs,
               refusals |-> memory.refusals]
        a1 == AllocatePool(a0, "state_cache", TRUE)
        a2 == AllocatePool(a1, "bitset_cache", TRUE)
        a3 == AllocatePool(a2, "map", TRUE)
    IN  AllocatePool(a3, "min_heap", allocate_heap)

\* free_context: the blocks taken back, one for each pool that is not NULL
free_context(alloc, frees) ==
    [name \in Pools |-> IF name \in alloc THEN frees[name] + 1 ELSE frees[name]]

\* a faulty variant of Refuse: the pools are allocated before the problem
\* is looked at
RefuseAfterAllocating ==
    /\ Return(create_result(FALSE, NoActions, 0, FALSE))
    /\ allocated' = allocate_context_memory(FALSE).allocated
    /\ memory' = [memory EXCEPT !.mallocs = allocate_context_memory(FALSE).mallocs]
    /\ UNCHANGED <<state_cache, bitset_cache, map, min_heap, locals>>

\* "if(!problem->potentially_solvable) return create_result(false, NULL, 0,
\* false)": the first statement of both drivers
Refuse ==
    /\ Return(create_result(FALSE, NoActions, 0, FALSE))
    /\ UNCHANGED <<pools, locals, memory>>

\* "if(!allocate_context_memory(context, ..)) return create_result(false,
\* NULL, 0, true)": the pools obtained before the failure stay
AllocationFailed(a) ==
    /\ Return(create_result(FALSE, NoActions, 0, TRUE))
    /\ allocated' = a.allocated
    /\ memory' = [memory EXCEPT !.mallocs = a.mallocs, !.refusals = a.refusals]
    /\ UNCHANGED <<state_cache, bitset_cache, map, min_heap, locals>>

\* a faulty variant of LimitReached: one expansion too many
LimitReachedLate(cfg, iters) ==
    cfg.max_iterations > 0 /\ iters > cfg.max_iterations

\* "max_iterations > 0 && iterations >= max_iterations"
LimitReached(cfg, iters) ==
    cfg.max_iterations > 0 /\ iters >= cfg.max_iterations

\* a faulty variant of PoolExhausted: the end of the pool is noticed one
\* state too late
PoolExhaustedLate(ctx, next_free) == next_free > ctx.state_count

\* "free_state == free_state_end", after ++free_state
PoolExhausted(ctx, next_free) == next_free = ctx.state_count

\* a faulty variant of hashmap_clear: the entries of the earlier search stay
hashmap_clear_skipped(m) == m

\* hashmap_clear(context->map, false): the hash set with no entry
hashmap_clear(m) == {}

\* the arguments a caller passes: the first two searches of a context take
\* any, every later one repeats the arguments of the first
Repeats(cfg) == Len(earlier) >= 2 => cfg = earlier[1].config

(***************************************************************************)
(* solve_bfs                                                               *)
(***************************************************************************)
SolveBfs ==
    /\ pc = "parsed"
    /\ \E max_iterations \in 0 .. MaxIterations :
          /\ config' = [use_astar |-> FALSE, h_factor |-> 0, g_factor |-> 0,
                        max_iterations |-> max_iterations]
          /\ Repeats(config')
    /\ IF ~problem.potentially_solvable
       THEN Refuse
       ELSE IF ~allocate_context_memory(FALSE).ok
       THEN AllocationFailed(allocate_context_memory(FALSE))
       ELSE /\ allocated' = allocate_context_memory(FALSE).allocated
            /\ memory' = [memory EXCEPT
                             !.mallocs = allocate_context_memory(FALSE).mallocs]
            /\ state_cache' = WriteSlot(state_cache, 0,
                 [ (IF Len(state_cache) > 0 THEN state_cache[1] ELSE UnsetState)
                     EXCEPT !.parent = NULL, !.player = problem.player,
                            !.crates = PROBLEM_CRATES, !.cost = 0 ])
            /\ free_state' = 1
            /\ free_bits' = 0
            /\ current' = 0
            /\ map' = hashmap_clear(map) \cup {0}
            /\ iterations' = 0
            /\ pc' = "loop"
            /\ UNCHANGED <<bitset_cache, min_heap, heap_size, parent, index, result>>
    /\ UNCHANGED <<args, attempt, context, problem, level_str, game, earlier, parses>>

\* a faulty variant of LoopBfs: the queue pointer is not advanced, the
\* state at the front is expanded again and again
LoopBfsNoAdvance ==
    /\ pc = "loop"
    /\ ~config.use_astar
    /\ IF current = free_state
       THEN /\ Return(create_result(FALSE, NoActions, iterations, FALSE))
            /\ UNCHANGED locals
       ELSE IF LimitReached(config, iterations)
       THEN /\ Return(create_result(FALSE, NoActions, iterations, TRUE))
            /\ UNCHANGED locals
       ELSE /\ iterations' = iterations + 1
            /\ parent' = current
            /\ index' = 0
            /\ pc' = "child"
            /\ UNCHANGED <<free_state, free_bits, current, heap_size, result>>
    /\ UNCHANGED <<args, attempt, memory, context, pools, problem, level_str, game, earlier, parses, config>>

\* a faulty variant of LoopBfs: the state stored last is expanded, not the
\* state at the front of the queue
LoopBfsNewestFirst ==
    /\ pc = "loop"
    /\ ~config.use_astar
    /\ IF current = free_state
       THEN /\ Return(create_result(FALSE, NoActions, iterations, FALSE))
            /\ UNCHANGED locals
       ELSE IF LimitReached(config, iterations)
       THEN /\ Return(create_result(FALSE, NoActions, iterations, TRUE))
            /\ UNCHANGED locals
       ELSE /\ iterations' = iterations + 1
            /\ parent' = free_state - 1
            /\ current' = current + 1
            /\ index' = 0
            /\ pc' = "child"
            /\ UNCHANGED <<free_state, free_bits, heap_size, result>>
    /\ UNCHANGED <<args, attempt, memory, context, pools, problem, level_str, game, earlier, parses, config>>

LoopBfs ==
    /\ pc = "loop"
    /\ ~config.use_astar
    /\ IF current = free_state
       THEN /\ Return(create_result(FALSE, NoActions, iterations, FALSE))
            /\ UNCHANGED locals
       ELSE IF LimitReached(config, iterations)
       THEN /\ Return(create_result(FALSE, NoActions, iterations, TRUE))
            /\ UNCHANGED locals
       ELSE /\ iterations' = iterations + 1
            /\ parent' = current
            /\ current' = current + 1
            /\ index' = 0
            /\ pc' = "child"
            /\ UNCHANGED <<free_state, free_bits, heap_size, result>>
    /\ UNCHANGED <<args, attempt, memory, context, pools, problem, level_str, game, earlier, parses, config>>

\* the move the for loop is looking at
ChildMove ==
    expand_child(context, problem, state_cache[parent + 1].player,
                 Deref(bitset_cache, problem, state_cache[parent + 1].crates), index)

\* a faulty variant of NewCrates: the parent's bit-vector is changed in
\* place
NewCratesInPlace == state_cache[parent + 1].crates

\* "crates = free_bits": where the bit-vector of a push is written
NewCrates == free_bits

\* bitset_copy, set_bit and clear_bit through the pointer "crates": the
\* bitset_cache and the problem's own bit-vector after the write
StoreBits(bits, crates, value) ==
    IF crates = PROBLEM_CRATES THEN bits
    ELSE WriteSlot(bits, crates \div context.bitset_size, value)

StoreProblem(prob, crates, value) ==
    IF crates = PROBLEM_CRATES THEN [prob EXCEPT !.crates = value]
    ELSE prob

\* the pools after the tentative bit-vector and child state are written
TentativeBits(e) ==
    IF e.changed THEN StoreBits(bitset_cache, NewCrates, e.crates)
    ELSE bitset_cache

TentativeChild(e, cost) ==
    [ (IF free_state < Len(state_cache) THEN state_cache[free_state + 1] ELSE UnsetState)
        EXCEPT !.action = e.action, !.cost = cost, !.parent = parent,
               !.player = e.player,
               !.crates = IF e.changed THEN NewCrates
                          ELSE state_cache[parent + 1].crates ]

\* the problem after the for body: written only if a push's bit-vector
\* pointer is the problem's
ProblemAfterChild ==
    IF ~ChildMove.skip /\ ChildMove.changed
    THEN StoreProblem(problem, NewCrates, ChildMove.crates)
    ELSE problem

\* a write past the end of a pool is undefined behaviour: the process may
\* be stopped there, or the write may land in memory past the pool
OutOfPool(e) ==
    \/ free_state >= context.state_count
    \/ e.changed /\ free_bits >= context.state_count * context.bitset_size

Fault ==
    /\ pc' = "fault"
    /\ UNCHANGED <<pools, locals, result>>

\* a faulty variant of ChildBfs: the bit-vector of a push is kept when the
\* child turns out to be in the hash set already
ChildBfsNoRollback ==
    /\ pc = "child"
    /\ ~config.use_astar
    /\ LET par  == state_cache[parent + 1]
           cost == (par.cost + 1) % PosMod
           e    == ChildMove
           bits   == TentativeBits(e)
           states == WriteSlot(state_cache, free_state, TentativeChild(e, cost))
           twins  == {t \in map : SameKey(states, bits, problem, t, free_state)}
       IN  IF e.skip
           THEN NextDirection /\ UNCHANGED <<pools, free_state, free_bits, current,
                                             heap_size, iterations, parent, result>>
           ELSE IF e.changed /\ bitset_equals(e.crates, problem.goals)
           THEN /\ bitset_cache' = bits
                /\ free_bits' = free_bits + context.bitset_size
                /\ LET solution == Solution(state_cache, parent, e.action, cost)
                   IN  IF "!" \in {solution[k] : k \in 1 .. Len(solution)}
                       THEN pc' = "fault" /\ UNCHANGED result
                       ELSE Return(create_result(TRUE, solution, iterations, FALSE))
                /\ UNCHANGED <<allocated, state_cache, map, min_heap, free_state,
                               current, heap_size, iterations, parent, index>>
           ELSE \/ /\ OutOfPool(e)
                   /\ Fault
                \/ /\ bitset_cache' = bits
                   /\ state_cache' = states
                   /\ IF twins = {}
                      THEN /\ free_state' = free_state + 1
                           /\ map' = map \cup {free_state}
                           /\ free_bits' = IF e.changed
                                           THEN free_bits + context.bitset_size
                                           ELSE free_bits
                           /\ IF PoolExhausted(context, free_state + 1)
                              THEN /\ Return(create_result(FALSE, NoActions, iterations, TRUE))
                                   /\ UNCHANGED index
                              ELSE NextDirection /\ UNCHANGED result
                      ELSE /\ NextDirection
                           /\ free_bits' = IF e.changed
                                           THEN free_bits + context.bitset_size
                                           ELSE free_bits
                           /\ UNCHANGED <<free_state, map, result>>
                   /\ UNCHANGED <<allocated, min_heap, current, heap_size,
                                  iterations, parent>>
    /\ problem' = ProblemAfterChild
    /\ UNCHANGED <<args, attempt, memory, context, level_str, game, earlier, parses, config>>

ChildBfs ==
    /\ pc = "child"
    /\ ~config.use_astar
    /\ LET par  == state_cache[parent + 1]
           cost == (par.cost + 1) % PosMod
           e    == ChildMove
           bits   == TentativeBits(e)
           states == WriteSlot(state_cache, free_state, TentativeChild(e, cost))
           twins  == {t \in map : SameKey(states, bits, problem, t, free_state)}
       IN  IF e.skip
           THEN NextDirection /\ UNCHANGED <<pools, free_state, free_bits, current,
                                             heap_size, iterations, parent, result>>
           ELSE IF e.changed /\ bitset_equals(e.crates, problem.goals)
           THEN /\ bitset_cache' = bits
                /\ free_bits' = free_bits + context.bitset_size
                /\ LET solution == Solution(state_cache, parent, e.action, cost)
                   IN  IF "!" \in {solution[k] : k \in 1 .. Len(solution)}
                       THEN pc' = "fault" /\ UNCHANGED result
                       ELSE Return(create_result(TRUE, solution, iterations, FALSE))
                /\ UNCHANGED <<allocated, state_cache, map, min_heap, free_state,
                               current, heap_size, iterations, parent, index>>
           ELSE \/ /\ OutOfPool(e)
                   /\ Fault
                \/ /\ bitset_cache' = bits
                   /\ state_cache' = states
                   /\ IF twins = {}
                      THEN /\ free_state' = free_state + 1
                           /\ map' = map \cup {free_state}
                           /\ free_bits' = IF e.changed
                                           THEN free_bits + context.bitset_size
                                           ELSE free_bits
                           /\ IF PoolExhausted(context, free_state + 1)
                              THEN /\ Return(create_result(FALSE, NoActions, iterations, TRUE))
                                   /\ UNCHANGED index
                              ELSE NextDirection /\ UNCHANGED result
                      ELSE /\ NextDirection
                           /\ UNCHANGED <<free_state, free_bits, map, result>>
                   /\ UNCHANGED <<allocated, min_heap, current, heap_size,
                                  iterations, parent>>
    /\ problem' = ProblemAfterChild
    /\ UNCHANGED <<args, attempt, memory, context, level_str, game, earlier, parses, config>>

(***************************************************************************)
(* solve_astar                                                             *)
(***************************************************************************)
RECURSIVE HeuristicSum(_, _, _, _)
HeuristicSum(ctx, prob, crates, position) ==
    IF position >= ctx.area THEN 0
    ELSE LET rest == HeuristicSum(ctx, prob, crates, position + 1)
         IN  IF get_bit(crates, position)
             THEN (prob.heuristics[position + 1] + rest) % PosMod
             ELSE rest

\* a faulty variant of compute_heuristic: every crate counts twice
compute_heuristic_doubled(ctx, prob, crates) ==
    (2 * HeuristicSum(ctx, prob, crates, 0)) % PosMod

compute_heuristic(ctx, prob, crates) == HeuristicSum(ctx, prob, crates, 0)

\* a faulty variant of Priority: the cost term is left out
PriorityNoCost(cfg, heuristic, cost) == cfg.h_factor * heuristic

\* float priority = h_factor * heuristic + g_factor * cost
Priority(cfg, heuristic, cost) == cfg.h_factor * heuristic + cfg.g_factor * cost

SolveAstar ==
    /\ pc = "parsed"
    /\ \E h_factor \in 0 .. MaxFactor, g_factor \in 0 .. MaxFactor,
          max_iterations \in 0 .. MaxIterations :
          /\ config' = [use_astar |-> TRUE, h_factor |-> h_factor,
                        g_factor |-> g_factor, max_iterations |-> max_iterations]
          /\ Repeats(config')
    /\ IF ~problem.potentially_solvable
       THEN Refuse
       ELSE IF ~allocate_context_memory(TRUE).ok
       THEN AllocationFailed(allocate_context_memory(TRUE))
       ELSE /\ allocated' = allocate_context_memory(TRUE).allocated
            /\ memory' = [memory EXCEPT
                             !.mallocs = allocate_context_memory(TRUE).mallocs]
            /\ LET heuristic == compute_heuristic(context, problem, problem.crates)
                   root == [ (IF Len(state_cache) > 0 THEN state_cache[1] ELSE UnsetState)
                               EXCEPT !.parent = NULL, !.player = problem.player,
                                      !.crates = PROBLEM_CRATES, !.cost = 0,
                                      !.heuristic = heuristic,
                                      !.priority = config'.h_factor * heuristic ]
                   h == heap_insert([min_heap |-> min_heap,
                                     states |-> WriteSlot(state_cache, 0, root)], 0, 0)
               IN  /\ state_cache' = h.states
                   /\ min_heap' = h.min_heap
            /\ heap_size' = 1
            /\ free_state' = 1
            /\ free_bits' = 0
            /\ map' = hashmap_clear(map) \cup {0}
            /\ iterations' = 0
            /\ pc' = "loop"
            /\ UNCHANGED <<bitset_cache, current, parent, index, result>>
    /\ UNCHANGED <<args, attempt, context, problem, level_str, game, earlier, parses>>

LoopAstar ==
    /\ pc = "loop"
    /\ config.use_astar
    /\ IF heap_size = 0
       THEN /\ Return(create_result(FALSE, NoActions, iterations, FALSE))
            /\ UNCHANGED <<locals, state_cache, min_heap>>
       ELSE IF LimitReached(config, iterations)
       THEN /\ Return(create_result(FALSE, NoActions, iterations, TRUE))
            /\ UNCHANGED <<locals, state_cache, min_heap>>
       ELSE LET popped == heap_pop([min_heap |-> min_heap, states |-> state_cache],
                                   heap_size)
            IN  /\ iterations' = iterations + 1
                /\ heap_size' = heap_size - 1
                /\ parent' = popped.root
                /\ min_heap' = popped.heap.min_heap
                /\ state_cache' = [popped.heap.states EXCEPT
                                      ![popped.root + 1].heap_index = -1]
                /\ index' = 0
                /\ pc' = "child"
                /\ UNCHANGED <<free_state, free_bits, current, result>>
    /\ UNCHANGED <<args, attempt, memory, context, allocated, bitset_cache, map, problem, level_str, game, earlier, parses, config>>

\* a faulty variant of InsertChild: the child of a push inherits the
\* parent's heuristic as well
InsertChildInherited(e, cost, bits, states) ==
    LET par == state_cache[parent + 1]
        heuristic == par.heuristic
        child == [ states[free_state + 1] EXCEPT
                     !.heuristic = heuristic,
                     !.priority = Priority(config, heuristic, cost) ]
    IN  heap_insert([min_heap |-> min_heap,
                     states |-> [states EXCEPT ![free_state + 1] = child]],
                    free_state, heap_size)

\* the branch for a child that is not in the hash set
InsertChild(e, cost, bits, states) ==
    LET par == state_cache[parent + 1]
        heuristic == IF e.changed THEN compute_heuristic(context, problem, e.crates)
                     ELSE par.heuristic
        child == [ states[free_state + 1] EXCEPT
                     !.heuristic = heuristic,
                     !.priority = Priority(config, heuristic, cost) ]
    IN  heap_insert([min_heap |-> min_heap,
                     states |-> [states EXCEPT ![free_state + 1] = child]],
                    free_state, heap_size)

\* a faulty variant of DecreaseKey: the twin takes the child's action and
\* cost and keeps the parent it had
DecreaseKeyKeepsParent(twin, e, cost, states) ==
    IF states[twin + 1].heap_index >= 0 /\ states[twin + 1].cost > cost
    THEN heapify_bottomup(
            [ min_heap |-> min_heap,
              states |-> [ states EXCEPT
                  ![twin + 1].action = e.action,
                  ![twin + 1].cost = cost,
                  ![twin + 1].priority =
                      Priority(config, states[twin + 1].heuristic, cost) ] ],
            states[twin + 1].heap_index)
    ELSE [min_heap |-> min_heap, states |-> states]

\* a faulty variant of DecreaseKey: a twin of equal cost is updated too
DecreaseKeyOnEqual(twin, e, cost, states) ==
    IF states[twin + 1].heap_index >= 0 /\ states[twin + 1].cost >= cost
    THEN heapify_bottomup(
            [ min_heap |-> min_heap,
              states |-> [ states EXCEPT
                  ![twin + 1].parent = parent,
                  ![twin + 1].action = e.action,
                  ![twin + 1].cost = cost,
                  ![twin + 1].priority =
                      Priority(config, states[twin + 1].heuristic, cost) ] ],
            states[twin + 1].heap_index)
    ELSE [min_heap |-> min_heap, states |-> states]

\* the branch for a child whose key is already in the hash set as "twin"
DecreaseKey(twin, e, cost, states) ==
    IF states[twin + 1].heap_index >= 0 /\ states[twin + 1].cost > cost
    THEN heapify_bottomup(
            [ min_heap |-> min_heap,
              states |-> [ states EXCEPT
                  ![twin + 1].parent = parent,
                  ![twin + 1].action = e.action,
                  ![twin + 1].cost = cost,
                  ![twin + 1].priority =
                      Priority(config, states[twin + 1].heuristic, cost) ] ],
            states[twin + 1].heap_index)
    ELSE [min_heap |-> min_heap, states |-> states]

ChildAstar ==
    /\ pc = "child"
    /\ config.use_astar
    /\ LET par  == state_cache[parent + 1]
           cost == (par.cost + 1) % PosMod
           e    == ChildMove
           bits   == TentativeBits(e)
           states == WriteSlot(state_cache, free_state, TentativeChild(e, cost))
           twins  == {t \in map : SameKey(states, bits, problem, t, free_state)}
       IN  IF e.skip
           THEN NextDirection /\ UNCHANGED <<pools, free_state, free_bits, current,
                                             heap_size, iterations, parent, result>>
           ELSE IF e.changed /\ bitset_equals(e.crates, problem.goals)
           THEN /\ bitset_cache' = bits
                /\ free_bits' = free_bits + context.bitset_size
                /\ LET solution == Solution(state_cache, parent, e.action, cost)
                   IN  IF "!" \in {solution[k] : k \in 1 .. Len(solution)}
                       THEN pc' = "fault" /\ UNCHANGED result
                       ELSE Return(create_result(TRUE, solution, iterations, FALSE))
                /\ UNCHANGED <<allocated, state_cache, map, min_heap, free_state,
                               current, heap_size, iterations, parent, index>>
           ELSE \/ /\ OutOfPool(e)
                   /\ Fault
                \/ /\ bitset_cache' = bits
                   /\ IF twins = {}
                      THEN LET h == InsertChild(e, cost, bits, states)
                           IN  /\ state_cache' = h.states
                               /\ min_heap' = h.min_heap
                               /\ heap_size' = heap_size + 1
                               /\ free_state' = free_state + 1
                               /\ map' = map \cup {free_state}
                               /\ free_bits' = IF e.changed
                                               THEN free_bits + context.bitset_size
                                               ELSE free_bits
                               /\ IF PoolExhausted(context, free_state + 1)
                                  THEN /\ Return(create_result(FALSE, NoActions,
                                                               iterations, TRUE))
                                       /\ UNCHANGED index
                                  ELSE NextDirection /\ UNCHANGED result
                      ELSE \E twin \in twins :
                             LET h == DecreaseKey(twin, e, cost, states)
                             IN  /\ state_cache' = h.states
                                 /\ min_heap' = h.min_heap
                                 /\ NextDirection
                                 /\ UNCHANGED <<free_state, free_bits, map,
                                                heap_size, result>>
                   /\ UNCHANGED <<allocated, current, iterations, parent>>
    /\ problem' = ProblemAfterChild
    /\ UNCHANGED <<args, attempt, memory, context, level_str, game, earlier, parses, config>>

(***************************************************************************)
(* The specification: one context, one parse, one search                   *)
(***************************************************************************)
Next ==
    \/ Parse
    \/ SolveBfs
    \/ LoopBfs
    \/ ChildBfs
    \/ SolveAstar
    \/ LoopAstar
    \/ ChildAstar

Spec == Init /\ [][Next]_vars

\* A driver, once called, runs on until it returns: its loop and its for
\* body are not left waiting.  The levels are those of FairSize, the
\* capacities those that hold at least one state besides the root.
FairSize == [width |-> 3, height |-> 2]

InitFair ==
    /\ Init
    /\ context.width = FairSize.width + 2
    /\ context.height = FairSize.height + 2
    /\ context.state_count >= 2

SpecFair ==
    /\ InitFair
    /\ [][Next]_vars
    /\ WF_vars(LoopBfs \/ ChildBfs)
    /\ WF_vars(LoopAstar \/ ChildAstar)

(***************************************************************************)
(* Several searches on one context and one parsed problem, as the note in  *)
(* solver.h allows: the caller takes the result and calls a driver again,  *)
(* which finds the pools as the earlier search left them                   *)
(***************************************************************************)
\* the number of searches a context runs after its first one
MaxEarlier == 2

\* the raw size of the contexts that are used again
ReuseSize == [width |-> 4, height |-> 4]

Again ==
    /\ pc = "done"
    /\ Len(earlier) < MaxEarlier
    /\ earlier' = Append(earlier, [config |-> config, result |-> result])
    /\ pc' = "parsed"
    /\ UNCHANGED <<args, attempt, memory, context, pools, problem, level_str, config, locals, result, game,
                   parses>>

(***************************************************************************)
(* Several parses into one problem ("you could reuse the problem to parse  *)
(* another level later").  The second call reads any of the listed case    *)
(* texts or the same text again, later calls the same text again.          *)
(***************************************************************************)
\* the number of parse_problem calls on one problem
MaxParses == 3

case_texts == tests_4x4 \cup parser_cases \cup walled_cases

Reparse ==
    /\ pc = "parsed"
    /\ parses < MaxParses
    /\ \E lv \in Levels :
          /\ lv.width + 2 = context.width
          /\ lv.height + 2 = context.height
          /\ lv.level = level_str \/ (parses = 1 /\ lv.level \in case_texts)
          /\ level_str' = lv.level
          /\ problem' = parse_problem(context, problem, lv.level)
    /\ game' = Game(context, problem')
    /\ parses' = parses + 1
    /\ UNCHANGED <<args, attempt, memory, context, pools, config, locals, result, pc, earlier>>

InitParse ==
    /\ Init
    /\ context.state_count = LargeCapacity + 1

NextParse ==
    \/ Parse
    \/ Reparse

SpecParse == InitParse /\ [][NextParse]_vars

InitReuse ==
    /\ Init
    /\ context.width = ReuseSize.width + 2
    /\ context.height = ReuseSize.height + 2

NextReuse ==
    \/ Parse
    \/ SolveBfs
    \/ LoopBfs
    \/ ChildBfs
    \/ SolveAstar
    \/ LoopAstar
    \/ ChildAstar
    \/ Again

SpecReuse == InitReuse /\ [][NextReuse]_vars

(***************************************************************************)
(* Searches under an allocator that may refuse: before a call of a driver  *)
(* the allocator's mood changes, so that any malloc of the call may return *)
(* NULL; the caller calls again after a refusal, and frees the context     *)
(***************************************************************************)
\* the number of refused requests after which the caller gives up
MaxRefusals == 2

Starve ==
    /\ pc = "parsed"
    /\ \E refused \in SUBSET Pools :
          /\ refused # memory.refused
          /\ memory' = [memory EXCEPT !.refused = refused]
    /\ UNCHANGED <<args, attempt, context, pools, problem, level_str, config, locals, result,
                   pc, game, earlier, parses>>

\* the caller, told that the limit was exceeded before any expansion,
\* calls a driver again
Retry ==
    /\ pc = "done"
    /\ result = create_result(FALSE, NoActions, 0, TRUE)
    /\ memory.refusals < MaxRefusals
    /\ pc' = "parsed"
    /\ UNCHANGED <<args, attempt, memory, context, pools, problem, level_str, config, locals,
                   result, game, earlier, parses>>

FreeContext ==
    /\ pc \in {"parsed", "done"}
    /\ memory' = [memory EXCEPT !.frees = free_context(allocated, memory.frees)]
    /\ pc' = "freed"
    /\ UNCHANGED <<args, attempt, context, pools, problem, level_str, config, locals, result,
                   game, earlier, parses>>

\* the contexts of this specification: the raw size of ReuseSize, a
\* capacity of one state or more up to MaxSmallCapacity
InitAlloc ==
    /\ InitReuse
    /\ context.state_count \in 2 .. MaxSmallCapacity + 1

NextAlloc ==
    \/ Parse
    \/ Starve
    \/ SolveBfs
    \/ LoopBfs
    \/ ChildBfs
    \/ SolveAstar
    \/ LoopAstar
    \/ ChildAstar
    \/ Retry
    \/ FreeContext

SpecAlloc == InitAlloc /\ [][NextAlloc]_vars

(***************************************************************************)
(* create_context on every size its parameters can carry                   *)
(***************************************************************************)
\* the largest value of an unsigned char parameter
MaxRaw == 255

\* no context yet
NoContext ==
    [ width |-> 0, height |-> 0, area |-> 0, bitset_size |-> 0, state_count |-> 0 ]

\* no problem yet
NoProblem == allocate_problem(NoContext)

InitCreate ==
    /\ \E raw_w \in 0 .. MaxRaw, raw_h \in 0 .. MaxRaw, capacity \in Capacities :
          args = [raw_w |-> raw_w, raw_h |-> raw_h, capacity |-> capacity]
    /\ context = NoContext
    /\ problem = NoProblem
    /\ pc = "start"
    /\ Untouched

CreateContext ==
    /\ pc = "start"
    /\ context' = create_context(args.raw_w, args.raw_h, args.capacity)
    /\ pc' = "created"
    /\ UNCHANGED <<args, attempt, memory, pools, problem, level_str, config, locals,
                   result, game, earlier, parses>>

SpecCreate == InitCreate /\ [][CreateContext]_vars

(***************************************************************************)
(* allocate_problem under an allocator that may refuse, and free_problem.  *)
(* A buffer field of the struct is "unset" while nothing was assigned to   *)
(* it (the struct comes from malloc, which does not clear it), "null"      *)
(* when malloc returned NULL for it, "block" when it holds a buffer.       *)
(***************************************************************************)
\* the fields when the malloc of buffer "failing" returns NULL (none does
\* when failing = Len(ProblemBuffers) + 1): allocate_problem stops there
FieldsAfter(failing) ==
    [ k \in 1 .. Len(ProblemBuffers) |->
        IF k < failing THEN "block" ELSE IF k = failing THEN "null" ELSE "unset" ]

\* free_problem(problem): each "if(problem->buffer) free(problem->buffer)".
\* Reading an unset field yields whatever the memory holds, "garbage": a
\* zero skips the free, anything else is passed to free.
free_problem(fields, garbage) ==
    [ released   |-> {k \in 1 .. Len(fields) : fields[k] = "block"},
      unassigned |-> {k \in 1 .. Len(fields) : fields[k] = "unset"},
      wild       |-> {k \in 1 .. Len(fields) :
                         fields[k] = "unset" /\ garbage[k] # "null"} ]

\* allocate_problem(context) for a further problem: "failing" is the
\* malloc that returns NULL, 0 for the struct itself
AllocateProblem ==
    /\ pc = "allocated"
    /\ attempt.returned = "none"
    /\ \E failing \in 0 .. Len(ProblemBuffers) + 1 :
       \E garbage \in [1 .. Len(ProblemBuffers) -> {"null", "wild"}] :
          LET fields == FieldsAfter(failing)
              freed  == free_problem(fields, garbage)
          IN  IF failing = 0
              THEN /\ attempt' = [NoAttempt EXCEPT !.returned = "NULL"]
                   /\ pc' = pc
              ELSE IF failing = Len(ProblemBuffers) + 1
              THEN /\ attempt' = [NoAttempt EXCEPT !.returned = "problem",
                                                   !.fields = fields]
                   /\ pc' = pc
              ELSE /\ attempt' = [ returned   |-> "NULL",
                                   fields     |-> fields,
                                   released   |-> freed.released,
                                   unassigned |-> freed.unassigned,
                                   wild       |-> freed.wild ]
                   /\ \/ pc' = pc
                      \/ freed.wild # {} /\ pc' = "fault"
    /\ UNCHANGED <<args, memory, context, pools, problem, level_str, config, locals,
                   result, game, earlier, parses>>

\* free_problem on a problem allocate_problem returned
FreeProblem ==
    /\ pc = "allocated"
    /\ attempt.returned = "problem"
    /\ \E garbage \in [1 .. Len(ProblemBuffers) -> {"null", "wild"}] :
          LET freed == free_problem(attempt.fields, garbage)
          IN  attempt' = [ attempt EXCEPT !.returned = "freed",
                                          !.released = freed.released,
                                          !.unassigned = freed.unassigned,
                                          !.wild = freed.wild ]
    /\ UNCHANGED <<args, memory, context, pools, problem, level_str, config, locals,
                   result, pc, game, earlier, parses>>

NextProblem ==
    \/ AllocateProblem
    \/ FreeProblem

SpecProblem == Init /\ [][NextProblem]_vars

(***************************************************************************)
(* parse_problem on levels with walls: the flood fill of                   *)
(* check_reachability and the passes of generate_deadlock_map              *)
(***************************************************************************)
MaxWalls == 2

\* every level of the given interior size with at most MaxWalls walls, one
\* player and "count" crates and goals on the other cells
WalledPlacements(size, count) ==
    LET cells == 1 .. size.width * size.height
        picks == {c \in SUBSET cells : Cardinality(c) = count}
        walls == {c \in SUBSET cells : Cardinality(c) <= MaxWalls}
        valid == {t \in cells \X picks \X picks \X walls :
                     /\ t[1] \notin t[2]
                     /\ ({t[1]} \cup t[2] \cup t[3]) \cap t[4] = {}}
    IN  { [ width  |-> size.width,
            height |-> size.height,
            level  |-> [cell \in cells |->
                          IF cell \in t[4] THEN "W"
                          ELSE Tile(cell, t[1], t[2], t[3])] ] :
          t \in valid }

WideSize == [width |-> 4, height |-> 3]

\* the levels of the wide size whose first cell holds a crate on its goal,
\* walled off by its two neighbours, with one player, one more crate and
\* one more goal on the other cells
CorneredLevels ==
    LET cells == 1 .. WideSize.width * WideSize.height
        walls == {2, WideSize.width + 1}
        open  == cells \ ({1} \cup walls)
    IN  { [ width  |-> WideSize.width,
            height |-> WideSize.height,
            level  |-> [cell \in cells |->
                          IF cell = 1 THEN "g"
                          ELSE IF cell \in walls THEN "W"
                          ELSE Tile(cell, t[1], {t[2]}, {t[3]})] ] :
          t \in {u \in open \X open \X open : u[1] # u[2]} }

WalledLevels ==
    CorneredLevels \cup WalledPlacements(TwoCrateSize, 2)
        \cup WalledPlacements(OneCrateSize, 1)

ParseWalled ==
    /\ pc = "allocated"
    /\ \E lv \in WalledLevels :
          /\ lv.width + 2 = context.width
          /\ lv.height + 2 = context.height
          /\ level_str' = lv.level
          /\ problem' = parse_problem(context, problem, lv.level)
    /\ parses' = parses + 1
    /\ pc' = "parsed"
    /\ UNCHANGED <<args, attempt, memory, context, pools, config, locals, result,
                   earlier, game>>

InitWalls ==
    /\ \E size \in {WideSize, OneCrateSize, TwoCrateSize} :
          /\ args = [raw_w |-> size.width, raw_h |-> size.height,
                     capacity |-> LargeCapacity]
          /\ context = create_context(size.width, size.height, LargeCapacity)
    /\ problem = allocate_problem(context)
    /\ pc = "allocated"
    /\ Untouched

SpecWalls == InitWalls /\ [][ParseWalled]_vars

(***************************************************************************)
(* Properties of the search results                                        *)
(***************************************************************************)
Letters == {Actions[k] : k \in 1 .. Len(Actions)}

Capacity == context.state_count - 1

\* C1: whenever a search (either driver, any weights) returns solved, the
\* returned string holds only the eight action letters, and replaying it
\* from the parsed player and crates never enters a wall, never pushes a
\* crate into a wall or a crate, never steps onto a crate with a lowercase
\* letter, and ends with crates = goals.
SolutionValid ==
    (pc = "done" /\ result.solved) =>
        /\ \A k \in 1 .. Len(result.actions) : result.actions[k] \in Letters
        /\ verify_solution(context, problem, problem.player, problem.crates,
                           result.actions)

\* a greedy search returned a solution that walks and pushes
SolutionValidWitness ==
    /\ pc = "done"
    /\ result.solved
    /\ config.use_astar /\ config.h_factor = 1 /\ config.g_factor = 0
    /\ \E k \in 1 .. Len(result.actions) : result.actions[k] \in {"l", "r", "u", "d"}
    /\ Cardinality({k \in 1 .. Len(result.actions) :
                        result.actions[k] \in {"L", "R", "U", "D"}}) >= 3
    /\ verify_solution(context, problem, problem.player, problem.crates,
                       result.actions)

\* C2: when solve_bfs returns solved, the length of the returned string is
\* the least number of moves of any legal move sequence, found without any
\* pruning, that puts every crate on a goal.
BfsOptimal ==
    (pc = "done" /\ ~config.use_astar /\ result.solved) =>
        Len(result.actions) = game.min_moves

\* solve_bfs solved a level in 12 moves after pruning at least one push
BfsOptimalWitness ==
    /\ pc = "done"
    /\ ~config.use_astar
    /\ result.solved
    /\ Len(result.actions) = 12
    /\ game.min_moves = 12
    /\ free_state < game.reachable

\* C3: solve_astar with g_factor = 1 and h_factor = 1 or 0 returns, when it
\* returns solved, a string of the minimal length (the length solve_bfs
\* returns), and it does return solved on every solvable level unless a
\* limit stops it.
AstarOptimal ==
    (pc = "done" /\ config.use_astar /\ config.g_factor = 1
                 /\ config.h_factor \in {0, 1}) =>
        /\ result.solved => Len(result.actions) = game.min_moves
        /\ (problem.compilable /\ game.min_moves # NULL
                /\ ~result.limit_exceeded) => result.solved

\* A* (1, 1) solved a level in the minimal 12 moves
AstarOptimalWitness ==
    /\ pc = "done"
    /\ config.use_astar /\ config.g_factor = 1 /\ config.h_factor = 1
    /\ result.solved
    /\ Len(result.actions) = 12
    /\ game.min_moves = 12

\* C4: a search on a compilable level that returns solved = false with
\* limit_exceeded = false (refused because potentially_solvable is false,
\* or ended because the frontier emptied) is right: no legal move sequence
\* solves the level.
UnsolvableSound ==
    (pc = "done" /\ problem.compilable /\ ~result.solved
                 /\ ~result.limit_exceeded) =>
        game.min_moves = NULL

\* the frontier of a potentially solvable level emptied after several
\* expansions
UnsolvableSoundWitness ==
    /\ pc = "done"
    /\ problem.compilable /\ problem.potentially_solvable
    /\ ~result.solved /\ ~result.limit_exceeded
    /\ result.iterations >= 3
    /\ game.min_moves = NULL

\* C5: on a compilable level that has a solution, with max_iterations = 0
\* and a capacity above the number of reachable configurations, a search
\* never leaves its pools and returns solved, whatever the weights (greedy
\* search included).
Completeness ==
    (/\ pc \in {"loop", "child", "done", "fault"}
     /\ problem.compilable
     /\ config.max_iterations = 0
     /\ game.min_moves # NULL
     /\ Capacity > game.reachable) =>
        /\ pc # "fault"
        /\ pc = "done" => result.solved

\* greedy search (h_factor = 1, g_factor = 0) solved a level with a string
\* longer than the minimum
CompletenessWitness ==
    /\ pc = "done"
    /\ problem.compilable
    /\ config.use_astar /\ config.h_factor = 1 /\ config.g_factor = 0
    /\ config.max_iterations = 0
    /\ Capacity > game.reachable
    /\ result.solved
    /\ Len(result.actions) > game.min_moves

(***************************************************************************)
(* Properties of parse_problem                                             *)
(***************************************************************************)
TileAlphabet == {"W", "w", ".", "0", "1", "A", "a", "g", "G", "+"}

\* the tiles of a text that land on a cell: its characters of the tile
\* alphabet, as many as the level has interior cells
ParsedTiles(ctx, text) ==
    LET tiles    == SelectSeq(text, LAMBDA c : c \in TileAlphabet)
        interior == (ctx.width - 2) * (ctx.height - 2)
    IN  SubSeq(tiles, 1, IF Len(tiles) < interior THEN Len(tiles) ELSE interior)

CountOf(tiles, kinds) == Cardinality({k \in 1 .. Len(tiles) : tiles[k] \in kinds})

\* C6: parse_problem returns true, and sets compilable, exactly when the
\* parsed tiles hold one player, as many goals as crates, and crates that
\* differ from the goals (with equal counts: some crate is off a goal);
\* potentially_solvable plays no part in it.
CompilableIff ==
    pc = "parsed" =>
        LET tiles   == ParsedTiles(context, level_str)
            players == CountOf(tiles, {"A", "a", "+"})
            goals   == CountOf(tiles, {"0", "g", "G", "+"})
            crates  == CountOf(tiles, {"1", "g", "G"})
        IN  /\ problem.compilable =
                  (/\ players = 1
                   /\ goals = crates
                   /\ ~bitset_equals(problem.crates, problem.goals))
            /\ goals = crates =>
                  (~bitset_equals(problem.crates, problem.goals)
                      <=> CountOf(tiles, {"1"}) > 0)

\* a level was reported compilable although it is not potentially solvable
CompilableIffWitness ==
    /\ pc = "parsed"
    /\ problem.compilable
    /\ ~problem.potentially_solvable
    /\ CountOf(ParsedTiles(context, level_str), {"+"}) = 1

\* some 2x2 window of the padded grid holds only walls and crates, one of
\* the crates off a goal
ClosedUnsafeWindow(ctx, prob) ==
    \E x \in 0 .. ctx.width - 2 : \E y \in 0 .. ctx.height - 2 :
        LET window == { y * ctx.width + x, y * ctx.width + x + 1,
                        (y + 1) * ctx.width + x, (y + 1) * ctx.width + x + 1 }
        IN  /\ \A c \in window : c \in prob.walls \/ c \in prob.crates
            /\ \E c \in window : c \in prob.crates /\ c \notin prob.goals

\* C7: after parse_problem, potentially_solvable is true exactly when the
\* level is compilable, no 2x2 window of the padded grid is closed with a
\* crate off a goal, no crate is on a cell of the deadlock map, and
\* check_reachability holds; whether the level is compilable is decided
\* before any of the three.
PotentiallySolvableIff ==
    pc = "parsed" =>
        /\ problem.potentially_solvable =
              (/\ problem.compilable
               /\ ~ClosedUnsafeWindow(context, problem)
               /\ ~bitset_covers_any(problem.crates,
                        generate_deadlock_map(context, problem).deadlocks)
               /\ check_reachability(context, problem.crates, problem.goals,
                                     problem.walls, problem.player))
        /\ (/\ CountOf(ParsedTiles(context, level_str), {"A", "a", "+"}) = 1
            /\ CountOf(ParsedTiles(context, level_str), {"0", "g", "G", "+"})
                  = CountOf(ParsedTiles(context, level_str), {"1", "g", "G"})
            /\ CountOf(ParsedTiles(context, level_str), {"1"}) > 0)
              => problem.compilable

\* a compilable level whose only failing check is check_reachability
PotentiallySolvableIffWitness ==
    /\ pc = "parsed"
    /\ problem.compilable
    /\ ~problem.potentially_solvable
    /\ ~ClosedUnsafeWindow(context, problem)
    /\ ~bitset_covers_any(problem.crates, problem.deadlocks)
    /\ ~check_reachability(context, problem.crates, problem.goals,
                           problem.walls, problem.player)

(***************************************************************************)
(* Properties of the limits                                                *)
(***************************************************************************)
\* C8: a search on a problem that is not potentially solvable returns at
\* once {solved = false, actions = none, iterations = 0, limit_exceeded =
\* false}: it expands nothing, allocates no pool and writes to none.
RefusalUntouched ==
    [][ (pc = "parsed" /\ ~problem.potentially_solvable) =>
            /\ pc' = "done"
            /\ result' = create_result(FALSE, NoActions, 0, FALSE)
            /\ pools' = pools
            /\ locals' = locals ]_vars

\* solve_astar refused a compilable level and left the context without pools
RefusalUntouchedWitness ==
    /\ pc = "done"
    /\ config.use_astar
    /\ problem.compilable
    /\ ~problem.potentially_solvable
    /\ result = create_result(FALSE, NoActions, 0, FALSE)
    /\ allocated = {}
    /\ state_cache = <<>>

\* the frontier holds a state: the queue of solve_bfs, the heap of
\* solve_astar
FrontierNonEmpty ==
    IF config.use_astar THEN heap_size > 0 ELSE current # free_state

\* C9: with max_iterations = M > 0 a search expands at most M states; when
\* the frontier still holds a state after M expansions, the search returns
\* {solved = false, limit_exceeded = true, iterations = M}; and with M = 1
\* a search on a solvable level ends with limit_exceeded, or solved by a
\* child of the root.
IterationLimit ==
    /\ [](config.max_iterations > 0 => iterations <= config.max_iterations)
    /\ [][ (/\ pc = "loop"
            /\ config.max_iterations > 0
            /\ iterations = config.max_iterations
            /\ FrontierNonEmpty) =>
               /\ pc' = "done"
               /\ result' = create_result(FALSE, NoActions,
                                          config.max_iterations, TRUE) ]_vars
    /\ []((/\ pc = "done"
           /\ config.max_iterations = 1
           /\ problem.compilable
           /\ game.min_moves # NULL) =>
              \/ result.limit_exceeded /\ ~result.solved
              \/ result.solved /\ Len(result.actions) = 1)

\* solve_astar stopped after two expansions with states left in the heap
\* and room left in the pool
IterationLimitWitness ==
    /\ pc = "done"
    /\ config.use_astar
    /\ config.max_iterations = 2
    /\ result = create_result(FALSE, NoActions, 2, TRUE)
    /\ heap_size > 0
    /\ free_state < context.state_count

\* C10: in a context of capacity >= 1, a child is only ever written at a
\* slot free_state inside state_cache, free_bits stays inside bitset_cache,
\* no pool holds more than state_count entries, and free_state reaches
\* state_count only in a search that returns at that moment {solved =
\* false, limit_exceeded = true}.
CapacityLimit ==
    Capacity >= 1 =>
        /\ pc # "fault"
        /\ 0 <= free_state /\ free_state <= context.state_count
        /\ pc \in {"loop", "child"} => free_state < context.state_count
        /\ 0 <= free_bits
        /\ free_bits < context.state_count * context.bitset_size
        /\ Len(state_cache) <= context.state_count
        /\ Len(bitset_cache) <= context.state_count
        /\ Len(min_heap) <= context.state_count
        /\ free_state = context.state_count =>
              /\ pc = "done"
              /\ ~result.solved
              /\ result.limit_exceeded

\* a search of capacity 2 filled its last slot and returned limit_exceeded
\* before the iteration limit
CapacityLimitWitness ==
    /\ Capacity = 2
    /\ pc = "done"
    /\ free_state = context.state_count
    /\ Len(state_cache) = context.state_count
    /\ result.limit_exceeded
    /\ ~LimitReached(config, result.iterations)

(***************************************************************************)
(* Properties of the pools, of the result and of the recorded actions      *)
(***************************************************************************)
\* C11: with capacity = 0 (state_count = 1) no search writes a state
\* outside the one-slot state_cache, and every search that expanded a state
\* and did not return a solution returns limit_exceeded = true.
CapacityZeroLimit ==
    Capacity = 0 =>
        /\ pc # "fault"
        /\ Len(state_cache) <= context.state_count
        /\ free_state <= context.state_count
        /\ (pc = "done" /\ result.iterations >= 1 /\ ~result.solved) =>
              result.limit_exceeded

\* the states on the parent chain of "s", from the first child of the root
\* down to "s" itself (the root, whose parent is NULL, is left out)
RECURSIVE ParentChain(_, _)
ParentChain(states, s) ==
    IF states[s + 1].parent = NULL THEN <<>>
    ELSE Append(ParentChain(states, states[s + 1].parent), s)

\* C12: at every return of solve_bfs and solve_astar, actions is non-null
\* exactly when solved is true, solved excludes limit_exceeded, and a
\* solved result holds exactly cost letters of the action alphabet, cost
\* being parent.cost + 1 for the parent of the goal child; the i-th letter
\* is the recorded action of the i-th state on the parent chain from the
\* root, and the last one is the action of the goal child itself.
ResultShape ==
    pc = "done" =>
        /\ (result.actions # NoActions) <=> result.solved
        /\ result.solved => ~result.limit_exceeded
        /\ result.solved =>
              LET cost  == state_cache[parent + 1].cost + 1
                  chain == ParentChain(state_cache, parent)
                  last  == expand_child(context, problem,
                               state_cache[parent + 1].player,
                               Deref(bitset_cache, problem,
                                     state_cache[parent + 1].crates), index)
              IN  /\ Len(result.actions) = cost
                  /\ NUL \notin {result.actions[k] : k \in 1 .. cost}
                  /\ \A k \in 1 .. cost : result.actions[k] \in Letters
                  /\ Len(chain) = cost - 1
                  /\ \A k \in 1 .. cost - 1 :
                        result.actions[k] = state_cache[chain[k] + 1].action
                  /\ result.actions[cost] = last.action

\* solve_astar returned a solution of at least three actions whose first
\* and last letters differ, one letter per state of the parent chain plus
\* the goal child's
ResultShapeWitness ==
    /\ pc = "done"
    /\ result.solved
    /\ config.use_astar
    /\ Len(result.actions) >= 3
    /\ result.actions[1] # result.actions[Len(result.actions)]
    /\ Len(ParentChain(state_cache, parent)) = Len(result.actions) - 1

\* the letters that record a push
PushLetters == {Actions[k] : k \in 5 .. 8}

\* the states stored by the running or finished search, the root excluded
StoredChildren ==
    IF pc \in {"loop", "child", "done"} /\ "state_cache" \in allocated
    THEN 1 .. free_state - 1
    ELSE {}

\* C13: the action recorded in every stored state is an uppercase letter
\* exactly when the move from its parent pushed a crate (the parent has a
\* crate on the cell the player steps on, and the state's crates are the
\* parent's with that crate one cell further), and the letter is l/L for
\* offset -1, r/R for +1, d/D for +width and u/U for -width.  The last
\* letter of a returned solution, the goal child's, is a push letter.
ActionRecorded ==
    /\ \A s \in StoredChildren :
          LET state  == state_cache[s + 1]
              par    == state_cache[state.parent + 1]
              offset == state.player - par.player
              before == Deref(bitset_cache, problem, par.crates)
              after  == Deref(bitset_cache, problem, state.crates)
              pushed == get_bit(before, state.player)
          IN  /\ state.action \in Letters
              /\ offset = ActionDirection(context, state.action)
              /\ state.action \in PushLetters <=> pushed
              /\ after = IF pushed
                         THEN set_bit(clear_bit(before, state.player),
                                      state.player + offset)
                         ELSE before
    /\ (pc = "done" /\ result.solved) =>
          result.actions[Len(result.actions)] \in PushLetters

\* a search has stored states reached by a plain step in each of the four
\* directions and states reached by a push in three directions
ActionRecordedWitness ==
    LET recorded == {state_cache[s + 1].action : s \in StoredChildren}
    IN  /\ Letters \ PushLetters \subseteq recorded
        /\ Cardinality(recorded \cap PushLetters) >= 3

(***************************************************************************)
(* Properties of searches that share a context and a problem               *)
(***************************************************************************)
\* C14: a search returns the same result (solved, limit_exceeded,
\* iterations and the action string) as every earlier search of the same
\* context that was given the same arguments -- the first of them ran on
\* the fresh context, the others on pools left by searches of any
\* arguments and outcome.
ContextReuse ==
    pc = "done" =>
        \A k \in 1 .. Len(earlier) :
            earlier[k].config = config => earlier[k].result = result

\* a driver solved the level in more than ten iterations twice with the
\* same arguments: on the fresh context, and again after a call of the
\* other driver that stopped at a limit after two or more expansions and
\* left its states in the pools
ContextReuseWitness ==
    /\ pc = "done"
    /\ Len(earlier) = 2
    /\ earlier[1].config = config
    /\ earlier[2].config.use_astar # config.use_astar
    /\ earlier[2].result.limit_exceeded
    /\ earlier[2].result.iterations >= 2
    /\ result.solved
    /\ result.iterations > 10
    /\ result = earlier[1].result

\* C15: no step of solve_bfs or solve_astar -- the refusal, the seeding of
\* the root, an expansion, a child, a return -- changes any field of the
\* problem (walls, goals, crates, player, goal_count, deadlocks,
\* heuristics, compilable, potentially_solvable): once parsed, the problem
\* stays as parse_problem left it.
ProblemUntouched == [][pc # "allocated" => problem' = problem]_vars

\* a search whose root shares the problem's crates bit-vector pushed
\* crates, wrote their bit-vectors into the bitset_cache and solved the
\* level after more than ten expansions
ProblemUntouchedWitness ==
    /\ pc = "done"
    /\ result.solved
    /\ result.iterations > 10
    /\ state_cache[1].crates = PROBLEM_CRATES
    /\ free_bits > 0
    /\ bitset_cache[1] # problem.crates

(***************************************************************************)
(* Properties of repeated parses and of the cell cursor                    *)
(***************************************************************************)
\* C16: a parse_problem call that reads the text the previous call on the
\* same problem read leaves every field of the problem (walls, goals,
\* crates, player, goal_count, deadlocks, heuristics, compilable,
\* potentially_solvable) as that previous call left it.
ParseIdempotent ==
    [][ (pc = "parsed" /\ parses' = parses + 1 /\ level_str' = level_str)
            => problem' = problem ]_vars

\* a problem that first held another level was parsed twice in a row from
\* a text with no player tile: it is uncompilable and keeps the player and
\* the deadlock map of the first level
ParseIdempotentWitness ==
    /\ pc = "parsed"
    /\ parses = 3
    /\ ~problem.compilable
    /\ problem.deadlocks # {}
    /\ problem.player # 0
    /\ \A k \in 1 .. Len(level_str) : level_str[k] \notin {"A", "a", "+"}

\* the position of the k-th interior cell in row-major order (k from 1)
InteriorCell(ctx, k) ==
    (((k - 1) \div (ctx.width - 2)) + 1) * ctx.width
        + ((k - 1) % (ctx.width - 2)) + 1

\* C17: after parse_problem the k-th character of the text that belongs to
\* the tile alphabet decides the k-th interior cell in row-major order --
\* wall for W w, goal for 0 g G +, crate for 1 g G, and the player on the
\* cell of the last A a + -- whatever other characters stand between
\* them; the interior cells after the last tile of a text that ends early
\* are walls without goal or crate, and tiles beyond the interior area
\* change nothing.
ParserCursor ==
    pc = "parsed" =>
        LET tiles    == ParsedTiles(context, level_str)
            interior == (context.width - 2) * (context.height - 2)
            players  == {k \in 1 .. Len(tiles) : tiles[k] \in {"A", "a", "+"}}
        IN  /\ \A k \in 1 .. interior :
                  LET cell == InteriorCell(context, k)
                      tile == IF k <= Len(tiles) THEN tiles[k] ELSE "W"
                  IN  /\ get_bit(problem.walls, cell) <=> tile \in {"W", "w"}
                      /\ get_bit(problem.goals, cell) <=> tile \in {"0", "g", "G", "+"}
                      /\ get_bit(problem.crates, cell) <=> tile \in {"1", "g", "G"}
            /\ players # {} =>
                  problem.player =
                      InteriorCell(context, CHOOSE k \in players :
                                                \A other \in players : other <= k)
            /\ problem.goal_count = CountOf(tiles, {"0", "g", "G", "+"})

\* a text in which characters outside the tile alphabet stand before a
\* goal tile was parsed into a compilable level: the goal is on the third
\* interior cell although it is the fourth character of the text
ParserCursorWitness ==
    /\ pc = "parsed"
    /\ problem.compilable
    /\ Len(level_str) > 3
    /\ level_str[3] \notin TileAlphabet
    /\ level_str[4] = "0"
    /\ problem.goals = {InteriorCell(context, 3)}

(***************************************************************************)
(* Properties of the positions the solver touches                          *)
(***************************************************************************)
\* the interior cells and the outer ring of the padded grid
Interior(ctx) ==
    {InteriorCell(ctx, k) : k \in 1 .. (ctx.width - 2) * (ctx.height - 2)}

Ring(ctx) == (0 .. ctx.area - 1) \ Interior(ctx)

\* the positions check_single_2x2_deadlock may pass to get_bit for a crate
\* pushed to "position": the cell itself, the cell ahead and the two cells
\* beside each of them
Single2x2Reads(ctx, position, direction) ==
    LET ortho == ctx.width + 1 - Abs(direction)
        p10   == position + direction
    IN  {position, p10, position + ortho, position - ortho, p10 + ortho, p10 - ortho}

\* the positions the for body of the drivers reads or writes for the move
\* in direction "idx": the player's new cell, the cell the crate goes to
\* when there is a crate to push, and the 2x2 windows around that cell when
\* the first three tests let the push through
ChildReads(ctx, prob, par_player, par_crates, idx) ==
    LET direction == directions(ctx.width)[idx + 1]
        player == (par_player + direction) % PosMod
        next   == (player + direction) % PosMod
    IN  {player}
        \cup (IF ~get_bit(prob.walls, player) /\ get_bit(par_crates, player)
              THEN {next} ELSE {})
        \cup (IF /\ ~get_bit(prob.walls, player) /\ get_bit(par_crates, player)
                 /\ ~get_bit(prob.walls, next) /\ ~get_bit(par_crates, next)
                 /\ ~get_bit(prob.deadlocks, next)
              THEN Single2x2Reads(ctx, next, direction) ELSE {})

\* the positions generate_deadlock_map reads or writes: every cell it
\* dequeues (the cells whose deadlock bit it cleared), their four
\* neighbours, and the cell beyond each neighbour that is not a wall
DeadlockReads(ctx, prob) ==
    LET dequeued == AllBits(ctx) \ generate_deadlock_map(ctx, prob).deadlocks
    IN  dequeued
        \cup {c + directions(ctx.width)[d] : c \in dequeued, d \in 1 .. 4}
        \cup UNION { IF get_bit(prob.walls, c + directions(ctx.width)[d]) THEN {}
                     ELSE {c + 2 * directions(ctx.width)[d]}
                   : c \in dequeued, d \in 1 .. 4 }

\* the positions check_reachability reads or writes: every cell it pops
\* and their four neighbours
ReachReads(ctx, prob) ==
    LET popped == reach_map(ctx, prob.walls, prob.player).reach
    IN  popped \cup {c + directions(ctx.width)[d] : c \in popped, d \in 1 .. 4}

\* C18: after parse_problem every cell of the outer ring is a wall and
\* holds no goal and no crate, and the player of a compilable level is on
\* an interior cell; the positions generate_deadlock_map and
\* check_reachability touch for it are in [0, area); during a search the
\* player of every stored state is an interior cell that is not a wall, and
\* the positions the for body and check_single_2x2_deadlock touch for each
\* move are in [0, area).
PositionsInGrid ==
    /\ pc # "allocated" =>
          /\ \A cell \in Ring(context) :
                /\ get_bit(problem.walls, cell)
                /\ ~get_bit(problem.goals, cell)
                /\ ~get_bit(problem.crates, cell)
          /\ problem.compilable => problem.player \in Interior(context)
    /\ (pc = "parsed" /\ problem.compilable) =>
          /\ DeadlockReads(context, problem) \subseteq 0 .. context.area - 1
          /\ ReachReads(context, problem) \subseteq 0 .. context.area - 1
    /\ pc \in {"loop", "child", "done", "fault"} =>
          \A s \in 0 .. free_state - 1 :
              /\ state_cache[s + 1].player \in Interior(context)
              /\ ~get_bit(problem.walls, state_cache[s + 1].player)
    /\ pc = "child" =>
          ChildReads(context, problem, state_cache[parent + 1].player,
                     Deref(bitset_cache, problem, state_cache[parent + 1].crates),
                     index) \subseteq 0 .. context.area - 1

\* a search is about to push a crate to a cell next to the ring -- the 2x2
\* windows around the crate's new cell reach onto the ring, down to the
\* corner cell 0 -- and has stored a state with the player in the first
\* interior cell
PositionsInGridWitness ==
    /\ pc = "child"
    /\ ChildMove.changed
    /\ Single2x2Reads(context, (ChildMove.player + directions(context.width)[index + 1]),
                      directions(context.width)[index + 1])
          \cap Ring(context) # {}
    /\ \E s \in 0 .. free_state - 1 :
          state_cache[s + 1].player = context.width + 1
    /\ 0 \in ChildReads(context, problem, state_cache[parent + 1].player,
                        Deref(bitset_cache, problem, state_cache[parent + 1].crates),
                        index)

(***************************************************************************)
(* Properties of the heuristic                                             *)
(***************************************************************************)
\* the configurations <<player, crates>> exhaustive play reaches from the
\* given ones
RECURSIVE Reachable(_, _, _, _)
Reachable(ctx, prob, frontier, seen) ==
    IF frontier = {} THEN seen
    ELSE LET next == UNION {LegalMoves(ctx, prob, s) : s \in frontier} \ seen
         IN  Reachable(ctx, prob, next, seen \cup next)

\* backward layers over the moves "succ": layers[k + 1] holds the
\* configurations whose shortest play to a solved configuration has
\* exactly k moves
RECURSIVE MovesLeftLayers(_, _, _, _)
MovesLeftLayers(succ, rest, layer, layers) ==
    IF layer = {} THEN layers
    ELSE LET others == rest \ layer
             next   == {s \in others : succ[s] \cap layer # {}}
         IN  MovesLeftLayers(succ, others, next, Append(layers, layer))

MovesLeft(ctx, prob) ==
    LET root   == <<prob.player, prob.crates>>
        all    == Reachable(ctx, prob, {root}, {root})
        succ   == [s \in all |-> LegalMoves(ctx, prob, s)]
        solved == {s \in all : bitset_equals(s[2], prob.goals)}
    IN  MovesLeftLayers(succ, all, solved, <<>>)

\* C19: when solve_astar returns, every state it stored holds as heuristic
\* the sum of problem.heuristics over its crates, and that sum is at most
\* the least number of moves (steps and pushes) in which legal play solves
\* the level from the state's player and crates.
Admissible ==
    (pc = "done" /\ config.use_astar /\ problem.potentially_solvable) =>
        LET layers == MovesLeft(context, problem)
        IN  \A s \in 0 .. free_state - 1 :
                LET crates == Deref(bitset_cache, problem, state_cache[s + 1].crates)
                    here   == <<state_cache[s + 1].player, crates>>
                IN  /\ state_cache[s + 1].heuristic
                          = compute_heuristic(context, problem, crates)
                    /\ \A k \in 1 .. Len(layers) :
                          here \in layers[k] => state_cache[s + 1].heuristic <= k - 1

\* solve_astar ran on a level of two or more crates and stored a state
\* whose heuristic is exactly the number of moves left, and a state whose
\* heuristic of two or more is below the number of moves left
AdmissibleWitness ==
    /\ pc = "done"
    /\ config.use_astar
    /\ problem.potentially_solvable
    /\ Cardinality(problem.crates) >= 2
    /\ LET layers == MovesLeft(context, problem)
           here(s) == <<state_cache[s + 1].player,
                        Deref(bitset_cache, problem, state_cache[s + 1].crates)>>
       IN  /\ \E s \in 0 .. free_state - 1 :
                 /\ state_cache[s + 1].heuristic >= 1
                 /\ state_cache[s + 1].heuristic < Len(layers)
                 /\ here(s) \in layers[state_cache[s + 1].heuristic + 1]
           /\ \E s \in 0 .. free_state - 1 : \E k \in 1 .. Len(layers) :
                 /\ state_cache[s + 1].heuristic >= 2
                 /\ here(s) \in layers[k]
                 /\ state_cache[s + 1].heuristic < k - 1

(***************************************************************************)
(* Termination                                                             *)
(***************************************************************************)
\* the stored states that have been taken from the frontier: the slots
\* before "current" in solve_bfs, the slots whose heap_index was set to -1
\* in solve_astar
Expanded ==
    IF config.use_astar
    THEN {s \in 0 .. free_state - 1 : state_cache[s + 1].heap_index = -1}
    ELSE 0 .. current - 1

\* what a search in progress or returned never leaves: each stored state
\* is counted in iterations at most once, iterations never exceeds the
\* states stored, which never exceed capacity + 1, and a return is one of
\* solved, frontier empty or limit
SearchBounded ==
    (Capacity >= 1 /\ pc \in {"loop", "child", "done"}
        /\ problem.potentially_solvable) =>
        /\ iterations = Cardinality(Expanded)
        /\ iterations <= free_state
        /\ free_state <= Capacity + 1
        /\ pc = "done" =>
              /\ result.iterations = iterations
              /\ \/ result.solved /\ ~result.limit_exceeded
                 \/ /\ ~result.solved /\ ~result.limit_exceeded
                    /\ Expanded = 0 .. free_state - 1
                 \/ /\ ~result.solved /\ result.limit_exceeded
                    /\ \/ LimitReached(config, iterations)
                       \/ PoolExhausted(context, free_state)

\* C20: with capacity >= 1 every search on a potentially solvable problem
\* returns, whatever max_iterations is (0 included); until then and at the
\* return, iterations counts each stored state at most once and is at most
\* the number of states stored, which is at most capacity + 1; the return
\* is solved, or frontier empty with limit_exceeded = false, or a limit
\* with limit_exceeded = true.
Terminates ==
    /\ []SearchBounded
    /\ (Capacity >= 1 /\ pc \in {"loop", "child"}) ~> (pc = "done")

\* a search with max_iterations = 0 and a pool it did not fill returned
\* after expanding every state it stored, five or more, without a solution
TerminatesWitness ==
    /\ pc = "done"
    /\ Capacity >= 1
    /\ config.max_iterations = 0
    /\ ~result.solved
    /\ ~result.limit_exceeded
    /\ result.iterations >= 5
    /\ result.iterations = free_state
    /\ free_state < Capacity + 1

(***************************************************************************)
(* Properties of allocation failure                                        *)
(***************************************************************************)
\* the pools a driver needs, in the order it asks for them
Needed(use_astar) ==
    IF use_astar THEN PoolNames ELSE SubSeq(PoolNames, 1, 3)

\* the first pool a call would have to allocate and is refused (0 when
\* every missing pool is granted)
FirstRefused(use_astar) ==
    LET needed == Needed(use_astar)
        failing == {k \in 1 .. Len(needed) :
                       needed[k] \notin allocated /\ needed[k] \in memory.refused}
    IN  IF failing = {} THEN 0
        ELSE CHOOSE k \in failing : \A other \in failing : k <= other

\* C21: a driver called on a potentially solvable problem while a pool it
\* needs is missing and refused returns {solved = false, actions = none,
\* iterations = 0, limit_exceeded = true}; the pools it held before the
\* call and those it obtained before the refusal are kept, each pool is
\* allocated only while it is missing (so no block is ever dropped or
\* allocated twice), and free_context gives back exactly the blocks handed
\* out: one for each pool that exists, none for a pool that does not.
AllocationFailure ==
    /\ [][ (pc = "parsed" /\ pc' # "parsed" /\ pc' # "freed"
                /\ problem.potentially_solvable) =>
            LET needed == Needed(config'.use_astar)
                first  == FirstRefused(config'.use_astar)
            IN  IF first # 0
                THEN /\ pc' = "done"
                     /\ result' = create_result(FALSE, NoActions, 0, TRUE)
                     /\ allocated' = allocated
                            \cup {needed[k] : k \in 1 .. first - 1}
                     /\ <<state_cache, bitset_cache, map, min_heap>>'
                            = <<state_cache, bitset_cache, map, min_heap>>
                ELSE /\ pc' = "loop"
                     /\ allocated' = allocated
                            \cup {needed[k] : k \in 1 .. Len(needed)} ]_vars
    /\ [][ \A name \in Pools :
              /\ name \in allocated => name \in allocated'
              /\ memory'.mallocs[name] # memory.mallocs[name] =>
                    /\ name \notin allocated
                    /\ name \in allocated'
                    /\ memory'.mallocs[name] = memory.mallocs[name] + 1 ]_vars
    /\ [](\A name \in Pools :
              /\ memory.mallocs[name] = IF name \in allocated THEN 1 ELSE 0
              /\ memory.frees[name] =
                    IF pc = "freed" THEN memory.mallocs[name] ELSE 0)

\* a context was freed after a call of a driver was refused a pool and a
\* later call of solve_astar, which the allocator would have refused the
\* two pools the context already held, obtained the other two and expanded
\* states; every block handed out was given back once
AllocationFailureWitness ==
    /\ pc = "freed"
    /\ memory.refusals >= 1
    /\ memory.refused = {"state_cache", "bitset_cache"}
    /\ config.use_astar
    /\ result.iterations >= 1
    /\ allocated = Pools
    /\ \A name \in Pools : memory.mallocs[name] = 1 /\ memory.frees[name] = 1

(***************************************************************************)
(* Properties of a partly allocated problem                                *)
(***************************************************************************)
\* C22: when a buffer allocation inside allocate_problem fails, the call
\* returns none, free_problem has released exactly the buffers allocated
\* before the failure, and it has neither read nor passed to free a buffer
\* field that nothing was assigned to; the process goes on.
PartialProblemFreed ==
    /\ pc # "fault"
    /\ attempt.returned = "NULL" =>
          /\ attempt.released
                = {k \in 1 .. Len(attempt.fields) : attempt.fields[k] = "block"}
          /\ attempt.unassigned = {}
          /\ attempt.wild = {}

(***************************************************************************)
(* Properties of create_context                                            *)
(***************************************************************************)
\* C23: for every raw width and height in 0 .. 255, the context holds
\* width = raw_w + 2, height = raw_h + 2, area = width * height with
\* area <= 65535, bitset_size = ceil(area / 64) and state_count =
\* capacity + 1.
ContextFields ==
    pc = "created" =>
        /\ context.width = args.raw_w + 2
        /\ context.height = args.raw_h + 2
        /\ context.area = context.width * context.height
        /\ context.area <= PosMod - 1
        /\ context.bitset_size = (context.area + BITS_CNT - 1) \div BITS_CNT
        /\ context.state_count = args.capacity + 1

(***************************************************************************)
(* Properties of the heap of solve_astar                                   *)
(***************************************************************************)
\* solve_astar is running or has returned, and the heap exists
HeapInUse ==
    /\ config.use_astar
    /\ pc \in {"loop", "child", "done"}
    /\ "min_heap" \in allocated

\* min_heap[slot]->priority
PriorityAt(slot) == state_cache[min_heap[slot + 1] + 1].priority

\* C24: whatever heap_insert, heap_pop and decrease-key calls solve_astar
\* has made (g_factor >= 0), every slot i below heap_size holds a priority
\* that is at most the priority in slot 2i and in slot 2i + 1, for each of
\* the two that is below heap_size.
HeapProperty ==
    HeapInUse =>
        \A i \in 0 .. heap_size - 1 :
            \A child \in {2 * i, 2 * i + 1} :
                child < heap_size => PriorityAt(i) <= PriorityAt(child)

\* after two or more pops the heap holds five or more states, slot 1 has
\* both its children, the root's priority is below that of slot 3 and the
\* two children of slot 1 hold different priorities
HeapPropertyWitness ==
    /\ HeapInUse
    /\ pc = "loop"
    /\ iterations >= 2
    /\ heap_size >= 5
    /\ PriorityAt(0) < PriorityAt(3)
    /\ PriorityAt(2) # PriorityAt(3)

\* the states the slots below heap_size point to
InHeap == {min_heap[slot + 1] : slot \in 0 .. heap_size - 1}

\* C25: between the steps of solve_astar every stored state's heap_index
\* is -1 or an index below heap_size whose slot points back to the state;
\* it is -1 exactly for the states that were popped -- those no slot points
\* to, as many as there were expansions, the state being expanded among
\* them -- and the slots below heap_size point to distinct stored states.
HeapIndexing ==
    HeapInUse =>
        /\ \A s \in 0 .. free_state - 1 :
              LET heap_index == state_cache[s + 1].heap_index
              IN  \/ heap_index = -1 /\ s \notin InHeap
                  \/ /\ 0 <= heap_index /\ heap_index < heap_size
                     /\ min_heap[heap_index + 1] = s
        /\ InHeap \subseteq 0 .. free_state - 1
        /\ Cardinality(InHeap) = heap_size
        /\ Cardinality({s \in 0 .. free_state - 1 :
                            state_cache[s + 1].heap_index = -1}) = iterations
        /\ pc = "child" => state_cache[parent + 1].heap_index = -1

\* after three or more pops the heap holds four or more states, and a
\* state stored earlier than another sits in a later slot: the indices
\* followed the states through the sifts
HeapIndexingWitness ==
    /\ HeapInUse
    /\ pc = "loop"
    /\ iterations >= 3
    /\ heap_size >= 4
    /\ \E s \in InHeap, t \in InHeap :
          /\ s < t
          /\ state_cache[s + 1].heap_index > state_cache[t + 1].heap_index
          /\ state_cache[t + 1].heap_index > 0

\* the step of solve_astar that calls heap_pop
PopStep == config.use_astar /\ pc = "loop" /\ pc' = "child"

\* C26: heap_pop on a heap that is not empty returns a state of the heap
\* whose priority is at most the priority of every state of the heap;
\* heap_size goes down by exactly one; the heap afterwards holds the states
\* it held before except the one returned, each with its priority.
HeapPop ==
    [][ PopStep =>
          /\ heap_size >= 1
          /\ parent' \in InHeap
          /\ \A s \in InHeap :
                state_cache[parent' + 1].priority <= state_cache[s + 1].priority
          /\ heap_size' = heap_size - 1
          /\ InHeap' = InHeap \ {parent'}
          /\ \A s \in InHeap :
                state_cache'[s + 1].priority = state_cache[s + 1].priority ]_vars

\* heap_pop has just returned, for the fourth time or later, a state that
\* was neither the first nor the last one stored; the three or more states
\* left in the heap include one of the same priority and one of a higher
\* priority
HeapPopWitness ==
    /\ HeapInUse
    /\ pc = "child"
    /\ index = 0
    /\ iterations >= 4
    /\ heap_size >= 3
    /\ parent > 0 /\ parent < free_state - 1
    /\ \E s \in InHeap : state_cache[s + 1].priority = state_cache[parent + 1].priority
    /\ \E s \in InHeap : state_cache[s + 1].priority > state_cache[parent + 1].priority

\* C27 as claimed: among the states of the heap that hold the same
\* priority, heap_pop returns them in the order in which they were
\* inserted -- states are inserted in the order they are stored, so the
\* state returned is the one with the lowest slot of state_cache among the
\* states of the heap that hold its priority.
TieBreakInsertionOrder ==
    [][ PopStep =>
          \A s \in InHeap :
              state_cache[s + 1].priority = state_cache[parent' + 1].priority
                  => parent' <= s ]_vars

\* a step of the for body of solve_astar on a heap that is not empty: the
\* only calls that reach the heap are heap_insert and the decrease-key
SiftUpStep == config.use_astar /\ pc = "child" /\ heap_size >= 1 /\ pc' # "fault"

\* C27 as amended: heap_pop returns the state in slot 0, whatever the
\* order of insertion; heap_insert and the decrease-key put another state
\* in slot 0 only if its priority is strictly below that of the state that
\* was there, so among equal priorities the state at the root stays.
TieBreakLayout ==
    /\ [][ PopStep => parent' = min_heap[1] ]_vars
    /\ [][ (SiftUpStep /\ min_heap'[1] # min_heap[1]) =>
              state_cache'[min_heap'[1] + 1].priority
                  < state_cache[min_heap[1] + 1].priority ]_vars

\* the state stored last was inserted with the priority of the root and
\* the root stayed; the root was itself stored later than another state of
\* the heap that holds the same priority
TieBreakLayoutWitness ==
    /\ HeapInUse
    /\ pc \in {"child", "loop"}
    /\ heap_size >= 3
    /\ free_state - 1 \in InHeap
    /\ min_heap[1] # free_state - 1
    /\ state_cache[free_state].priority = PriorityAt(0)
    /\ \E s \in InHeap :
          /\ s < min_heap[1]
          /\ state_cache[s + 1].priority = PriorityAt(0)

(***************************************************************************)
(* Properties of the explored set and of the order of expansion            *)
(***************************************************************************)
\* a driver has seeded its root: the states it has stored so far
Stored ==
    IF pc \in {"loop", "child", "done"} /\ "state_cache" \in allocated
    THEN 0 .. free_state - 1
    ELSE {}

\* the key of a stored state: its player and the contents of its crates
\* bit-vector
KeyOf(s) ==
    <<state_cache[s + 1].player,
      Deref(bitset_cache, problem, state_cache[s + 1].crates)>>

\* C28: at every step of solve_bfs and solve_astar the states in
\* state_cache[0 .. free_state) have pairwise different keys (player,
\* contents of the crates bit-vector), and the explored set holds exactly
\* these states.
Uniqueness ==
    /\ Cardinality({KeyOf(s) : s \in Stored}) = Cardinality(Stored)
    /\ pc \in {"loop", "child", "done"} => map = Stored

\* the for body is looking at a push that leads to a key already stored,
\* by a state that holds the crates in another bit-vector of the cache
UniquenessWitness ==
    /\ pc = "child"
    /\ ~ChildMove.skip
    /\ ChildMove.changed
    /\ free_bits > 0
    /\ \E t \in Stored :
          /\ KeyOf(t) = <<ChildMove.player, ChildMove.crates>>
          /\ state_cache[t + 1].crates # PROBLEM_CRATES
          /\ state_cache[t + 1].crates # free_bits

\* solve_bfs is running or has returned
BfsInUse ==
    /\ ~config.use_astar
    /\ pc \in {"loop", "child", "done"}
    /\ "state_cache" \in allocated

\* the pruned move graph: the configurations <<player, crates>> the for
\* body of the drivers goes to from s
PrunedMoves(ctx, prob, s) ==
    { <<expand_child(ctx, prob, s[1], s[2], idx).player,
        expand_child(ctx, prob, s[1], s[2], idx).crates>> :
      idx \in {i \in 0 .. 3 : ~expand_child(ctx, prob, s[1], s[2], i).skip} }

\* layers[k + 1]: the configurations whose shortest path from the root in
\* the pruned move graph has k moves, for k up to "depth"
RECURSIVE PrunedLayers(_, _, _, _, _, _)
PrunedLayers(ctx, prob, frontier, seen, layers, depth) ==
    IF frontier = {} \/ Len(layers) > depth THEN layers
    ELSE LET next == UNION {PrunedMoves(ctx, prob, s) : s \in frontier} \ seen
         IN  PrunedLayers(ctx, prob, next, seen \cup next,
                          Append(layers, frontier), depth)

\* C29: in solve_bfs the states of state_cache[0 .. free_state) are in the
\* order of their discovery -- each after its parent, the children of an
\* earlier parent before those of a later one -- with costs that never
\* decrease, the cost of each one more than its parent's; the cursor
\* expands them in that same order, one slot after the other; and when
\* solve_bfs returns the cost of every stored state is the length of a
\* shortest path from the root to it in the pruned move graph.
BfsLevelOrder ==
    /\ [](BfsInUse =>
            /\ state_cache[1].cost = 0
            /\ current <= free_state
            /\ pc = "child" => parent = current - 1
            /\ \A s \in 1 .. free_state - 1 :
                  LET state == state_cache[s + 1]
                  IN  /\ state.parent < s
                      /\ state.parent < current
                      /\ state.cost = state_cache[state.parent + 1].cost + 1
                      /\ state_cache[s].cost <= state.cost
                      /\ s >= 2 => state_cache[s].parent <= state.parent)
    /\ [][ (~config.use_astar /\ pc = "loop" /\ pc' = "child") =>
              /\ parent' = current
              /\ current' = current + 1 ]_vars
    /\ []((BfsInUse /\ pc = "done") =>
            LET root   == <<problem.player, problem.crates>>
                depth  == state_cache[free_state].cost
                layers == PrunedLayers(context, problem, {root}, {root}, <<>>, depth)
            IN  \A s \in Stored :
                    /\ state_cache[s + 1].cost < Len(layers)
                    /\ KeyOf(s) \in layers[state_cache[s + 1].cost + 1])

\* solve_bfs returned after it stored twenty or more states, the last of
\* them five or more moves from the root, with more than one state at the
\* same cost, and a state that was reached again later at a higher cost
\* than the one it was stored with
BfsLevelOrderWitness ==
    /\ BfsInUse
    /\ pc = "done"
    /\ free_state >= 20
    /\ state_cache[free_state].cost >= 5
    /\ state_cache[free_state - 1].cost = state_cache[free_state].cost
    /\ \E s \in Stored, t \in Stored :
          /\ KeyOf(s) \in PrunedMoves(context, problem, KeyOf(t))
          /\ state_cache[s + 1].cost < state_cache[t + 1].cost

(***************************************************************************)
(* Properties of the decrease-key of solve_astar                           *)
(***************************************************************************)
\* the stored states that hold the key of the child the for body of
\* solve_astar is looking up (none when the move is skipped or reaches
\* the goal)
Twins ==
    IF /\ config.use_astar
       /\ pc = "child"
       /\ ~ChildMove.skip
       /\ ~(ChildMove.changed /\ bitset_equals(ChildMove.crates, problem.goals))
    THEN {t \in Stored : KeyOf(t) = <<ChildMove.player, ChildMove.crates>>}
    ELSE {}

\* C30: when solve_astar generates a child whose key is stored already, as
\* twin, no state is added to the pool, the explored set or the heap.  If
\* the twin is in the heap (heap_index >= 0) and its cost is above the
\* child's, the twin takes the child's parent, action and cost, its
\* priority becomes h_factor * heuristic + g_factor * cost with the
\* heuristic it had, and it is sifted up: it sits at its old slot or above
\* it, below a state whose priority is not higher.  Otherwise -- the twin
\* was popped, or its cost is not larger -- the twin and the heap stay
\* exactly as they were.  In both cases every other stored state keeps all
\* its fields but heap_index.
DecreaseKeyRule ==
    [][ (Twins # {} /\ pc' # "fault") =>
          \A twin \in Twins :
              LET old   == state_cache[twin + 1]
                  new   == state_cache'[twin + 1]
                  cost  == state_cache[parent + 1].cost + 1
              IN  /\ free_state' = free_state
                  /\ map' = map
                  /\ heap_size' = heap_size
                  /\ InHeap' = InHeap
                  /\ \A s \in Stored \ {twin} :
                        [state_cache'[s + 1] EXCEPT !.heap_index = 0]
                            = [state_cache[s + 1] EXCEPT !.heap_index = 0]
                  /\ IF old.heap_index >= 0 /\ old.cost > cost
                     THEN /\ new.parent = parent
                          /\ new.action = ChildMove.action
                          /\ new.cost = cost
                          /\ new.heuristic = old.heuristic
                          /\ new.priority = config.h_factor * old.heuristic
                                                + config.g_factor * cost
                          /\ new.player = old.player
                          /\ new.crates = old.crates
                          /\ 0 <= new.heap_index
                          /\ new.heap_index <= old.heap_index
                          /\ min_heap'[new.heap_index + 1] = twin
                          /\ state_cache'[min_heap'[(new.heap_index \div 2) + 1] + 1]
                                .priority <= new.priority
                     ELSE /\ new = old
                          /\ min_heap' = min_heap
                          /\ state_cache' = [state_cache' EXCEPT
                                               ![free_state + 1] = @]
                          /\ \A s \in Stored : state_cache'[s + 1] = state_cache[s + 1]
        ]_vars

\* while solve_astar expands a state, a state of the heap that was stored
\* before a child of another parent has the expanded state as its parent
\* and the cost and priority of a child of it: it was stored for a longer
\* path and a decrease-key of this expansion gave it the shorter one
DecreaseKeyRuleWitness ==
    /\ HeapInUse
    /\ pc = "child"
    /\ \E s \in Stored \ {0}, later \in Stored :
          /\ s < later
          /\ state_cache[later + 1].parent # parent
          /\ state_cache[s + 1].parent = parent
          /\ state_cache[s + 1].heap_index >= 0
          /\ state_cache[s + 1].cost = state_cache[parent + 1].cost + 1
          /\ state_cache[s + 1].priority =
                config.h_factor * state_cache[s + 1].heuristic
                    + config.g_factor * state_cache[s + 1].cost
(***************************************************************************)
(* Properties of child generation                                          *)
(***************************************************************************)
\* the move in direction "index" from the state being expanded, as the
\* drivers read it: the player's new cell, the cell behind it, the
\* parent's crates, and what stands in the way
MoveCase ==
    LET par       == state_cache[parent + 1]
        direction == directions(context.width)[index + 1]
        crates    == Deref(bitset_cache, problem, par.crates)
        player    == par.player + direction
        next      == player + direction
    IN  [ player  |-> player,
          next    |-> next,
          crates  |-> crates,
          wall    |-> get_bit(problem.walls, player),
          pushes  |-> get_bit(crates, player),
          blocked |-> \/ get_bit(problem.walls, next)
                      \/ get_bit(crates, next)
                      \/ get_bit(problem.deadlocks, next)
                      \/ check_single_2x2_deadlock(context, problem, crates,
                                                   next, direction) ]

\* C31: from the parent and the direction d, with player' = parent.player
\* + d and next = player' + d, no child is produced if player' is a wall,
\* nor if player' holds a crate and next is a wall, a crate, a deadlock
\* cell or check_single_2x2_deadlock is true.  Otherwise a child is
\* produced with player = player' and cost = parent.cost + 1; after a push
\* its crates are a new bit-vector, the parent's with player' cleared and
\* next set, and after a plain step its crates pointer is the parent's and
\* the bit-vector is unchanged.  A push that reaches the goals returns a
\* solution of parent.cost + 1 actions.
ChildExpansion ==
    [][ (pc = "child" /\ pc' # "fault") =>
          LET m     == MoveCase
              par   == state_cache[parent + 1]
              child == state_cache'[free_state + 1]
              after == Deref(bitset_cache', problem', child.crates)
              moved == (m.crates \ {m.player}) \cup {m.next}
          IN  IF m.wall \/ (m.pushes /\ m.blocked)
              THEN /\ pools' = pools
                   /\ free_state' = free_state
                   /\ free_bits' = free_bits
                   /\ pc' # "done"
              ELSE IF pc' = "done" /\ result'.solved
              THEN /\ m.pushes
                   /\ moved = problem.goals
                   /\ bitset_cache'[(free_bits \div context.bitset_size) + 1] = moved
                   /\ Len(result'.actions) = par.cost + 1
              ELSE /\ child.player = m.player
                   /\ child.cost = par.cost + 1
                   /\ child.parent = parent
                   /\ IF m.pushes
                      THEN /\ child.crates = free_bits
                           /\ child.crates # par.crates
                           /\ after = moved
                           /\ moved # problem.goals
                      ELSE /\ child.crates = par.crates
                           /\ after = m.crates
                   /\ Deref(bitset_cache', problem', par.crates) = m.crates
        ]_vars

\* the state being expanded has a stored child that shares its crates
\* pointer and a stored child made by a push, whose own bit-vector is the
\* parent's with the crate moved one cell, and a direction of this
\* expansion that gave no child because of a wall or a blocked push
ChildExpansionWitness ==
    /\ pc = "child"
    /\ index = 3
    /\ \E step \in Stored, push \in Stored :
          LET par == state_cache[parent + 1]
              crates == Deref(bitset_cache, problem, par.crates)
              moved == Deref(bitset_cache, problem, state_cache[push + 1].crates)
          IN  /\ state_cache[step + 1].parent = parent
              /\ state_cache[step + 1].crates = par.crates
              /\ state_cache[step + 1].cost = par.cost + 1
              /\ state_cache[push + 1].parent = parent
              /\ state_cache[push + 1].crates # par.crates
              /\ state_cache[push + 1].cost = par.cost + 1
              /\ Cardinality(moved \ crates) = 1
              /\ crates \ moved = {state_cache[push + 1].player}
    /\ MoveCase.wall \/ (MoveCase.pushes /\ MoveCase.blocked)

(***************************************************************************)
(* Properties of the 2x2 pruning                                           *)
(***************************************************************************)
\* the 2x2 windows of the padded grid that contain the cell
WindowsAt(ctx, cell) ==
    { {a, a + 1, a + ctx.width, a + ctx.width + 1} :
        a \in {cell, cell - 1, cell - ctx.width, cell - ctx.width - 1} }

\* a window that holds only walls and crates, one of the crates off a goal
ClosedUnsafe(prob, crates, window) ==
    /\ \A c \in window : c \in prob.walls \/ c \in crates
    /\ \E c \in window : c \in crates /\ c \notin prob.goals

\* the drivers are looking at a push that passed the tests of the walls,
\* the crates and the deadlock map, and call check_single_2x2_deadlock
PushChecked ==
    /\ pc = "child"
    /\ ~MoveCase.wall
    /\ MoveCase.pushes
    /\ ~get_bit(problem.walls, MoveCase.next)
    /\ ~get_bit(MoveCase.crates, MoveCase.next)
    /\ ~get_bit(problem.deadlocks, MoveCase.next)

\* C32: for every push the drivers hand to check_single_2x2_deadlock, with
\* the parent's crates, the crate's new cell and the direction of the
\* push, it returns true exactly when some 2x2 window that contains the
\* new cell holds, after the push, only walls and crates with a crate off
\* a goal; and no state stored during a search has such a window anywhere:
\* check_all_2x2_deadlock is false on it.
PruningComplete ==
    /\ PushChecked =>
          LET m == MoveCase
              moved == (m.crates \ {m.player}) \cup {m.next}
          IN  check_single_2x2_deadlock(context, problem, m.crates, m.next,
                                        m.next - m.player)
                  <=> \E window \in WindowsAt(context, m.next) :
                          ClosedUnsafe(problem, moved, window)
    /\ pc \in {"loop", "child", "done"} =>
          \A s \in Stored :
              LET placed == [problem EXCEPT !.crates =
                                Deref(bitset_cache, problem, state_cache[s + 1].crates)]
              IN  /\ ~ClosedUnsafeWindow(context, placed)
                  /\ ~check_all_2x2_deadlock(context, placed)

\* with two crates on the board and a state made by a push stored,
\* check_single_2x2_deadlock turns down a push that would close exactly
\* one of the windows around the crate's new cell with a crate off a goal
PruningCompleteWitness ==
    /\ PushChecked
    /\ check_single_2x2_deadlock(context, problem, MoveCase.crates, MoveCase.next,
                                 MoveCase.next - MoveCase.player)
    /\ Cardinality(MoveCase.crates) >= 2
    /\ \E s \in Stored : state_cache[s + 1].crates # PROBLEM_CRATES
    /\ LET moved == (MoveCase.crates \ {MoveCase.player}) \cup {MoveCase.next}
       IN  Cardinality({window \in WindowsAt(context, MoveCase.next) :
                            ClosedUnsafe(problem, moved, window)}) = 1

(***************************************************************************)
(* Properties of the deadlock map and the distance table                   *)
(***************************************************************************)
\* the cells from which a lone crate is brought onto a cell of "frontier"
\* by one push: the crate's cell n and the cell it is pushed to are not
\* walls, and the cell behind n, where the player stands, is not a wall
PushedOnto(ctx, prob, frontier) ==
    { n \in 0 .. ctx.area - 1 :
        /\ n \notin prob.walls
        /\ \E k \in 1 .. 4 :
              LET direction == directions(ctx.width)[k]
              IN  /\ (n - direction) \in frontier
                  /\ (n + direction) \notin prob.walls }

\* the fewest pushes that bring a lone crate from each cell onto a goal:
\* layers[k + 1] holds the cells that need k pushes
RECURSIVE PushLayers(_, _, _, _, _)
PushLayers(ctx, prob, frontier, seen, layers) ==
    IF frontier = {} THEN layers
    ELSE PushLayers(ctx, prob, PushedOnto(ctx, prob, frontier) \ seen,
                    seen \cup PushedOnto(ctx, prob, frontier),
                    Append(layers, frontier))

\* generate_deadlock_map has run on the parsed problem
DeadlockMapMade ==
    /\ pc = "parsed"
    /\ problem.compilable
    /\ ~check_all_2x2_deadlock(context, problem)

\* C33: after generate_deadlock_map, for every cell p of the padded grid
\* heuristics[p] is the fewest pushes that bring a lone crate from p onto
\* some goal (a crate stands on no wall; a push needs the cell pushed to
\* and the cell behind the crate free of walls; other crates are ignored),
\* goal cells hold 0, and deadlocks[p] is set exactly when no sequence of
\* pushes brings the crate onto a goal, and then heuristics[p] = area;
\* every other cell holds less than area.
DeadlockMapExact ==
    DeadlockMapMade =>
        LET layers == PushLayers(context, problem, problem.goals, problem.goals, <<>>)
            within == UNION {layers[k] : k \in 1 .. Len(layers)}
        IN  /\ \A g \in problem.goals : problem.heuristics[g + 1] = 0
            /\ \A k \in 1 .. Len(layers) : \A p \in layers[k] :
                  /\ problem.heuristics[p + 1] = k - 1
                  /\ problem.heuristics[p + 1] < context.area
                  /\ ~get_bit(problem.deadlocks, p)
            /\ \A p \in (0 .. context.area - 1) \ within :
                  /\ get_bit(problem.deadlocks, p)
                  /\ problem.heuristics[p + 1] = context.area

\* a parsed level has a cell two pushes away from the nearest goal, and a
\* cell that is no wall but from which no push sequence reaches a goal
DeadlockMapExactWitness ==
    /\ DeadlockMapMade
    /\ \E p \in 0 .. context.area - 1 : problem.heuristics[p + 1] = 2
    /\ \E p \in 0 .. context.area - 1 :
          /\ p \notin problem.walls
          /\ get_bit(problem.deadlocks, p)
          /\ problem.heuristics[p + 1] = context.area
    /\ Cardinality(problem.goals) >= 2

(***************************************************************************)
(* Properties of check_reachability                                        *)
(***************************************************************************)
\* the cells the player can walk to from "seen" by steps to the four
\* neighbours that are not walls, crates not standing in the way
RECURSIVE WalkRegion(_, _, _)
WalkRegion(ctx, prob, seen) ==
    LET more == { n \in 0 .. ctx.area - 1 :
                    /\ n \notin prob.walls
                    /\ n \notin seen
                    /\ \E k \in 1 .. 4 : (n - directions(ctx.width)[k]) \in seen }
    IN  IF more = {} THEN seen ELSE WalkRegion(ctx, prob, seen \cup more)

\* parse_problem has called check_reachability: the level is compilable,
\* no 2x2 window is deadlocked and no crate is on the deadlock map
ReachabilityChecked ==
    /\ DeadlockMapMade
    /\ ~bitset_covers_any(problem.crates, problem.deadlocks)

\* C34: check_reachability returns true exactly when every cell that holds
\* a crate without a goal or a goal without a crate can be walked to from
\* the player's cell by steps to the four neighbours through cells that are
\* not walls; crates do not stop the walk, and a cell that holds a crate on
\* its goal need not be walked to.
ReachabilityIff ==
    ReachabilityChecked =>
        LET region == WalkRegion(context, problem, {problem.player})
            unpaired == (problem.crates \ problem.goals)
                            \cup (problem.goals \ problem.crates)
        IN  /\ problem.potentially_solvable = (unpaired \subseteq region)
            /\ check_reachability(context, problem.crates, problem.goals,
                                  problem.walls, problem.player)
                  = (unpaired \subseteq region)

\* check_reachability returned true on a level where a crate on its goal
\* is walled off from the player, who can walk to the other crate and the
\* other goal
ReachabilityIffWitness ==
    /\ ReachabilityChecked
    /\ problem.potentially_solvable
    /\ \E c \in problem.crates \cap problem.goals :
          c \notin WalkRegion(context, problem, {problem.player})
    /\ \E c \in problem.crates \ problem.goals :
          c \in WalkRegion(context, problem, {problem.player})

(***************************************************************************)
(* Properties of the heuristic and priority of the states of solve_astar   *)
(***************************************************************************)
\* the sum of problem.heuristics over the cells of a set of crates
RECURSIVE DistanceSum(_, _)
DistanceSum(prob, crates) ==
    IF crates = {} THEN 0
    ELSE LET c == CHOOSE cell \in crates : TRUE
         IN  prob.heuristics[c + 1] + DistanceSum(prob, crates \ {c})

\* C35: in solve_astar every stored state s has s.heuristic = the sum of
\* problem.heuristics[c] over the crates c of s, whether it was computed
\* for a push or inherited from the parent, and s.priority = h_factor *
\* s.heuristic + g_factor * s.cost, also after a decrease-key; the root has
\* priority h_factor * heuristic(root).
HeuristicKept ==
    HeapInUse =>
        /\ \A s \in Stored :
              LET state == state_cache[s + 1]
              IN  /\ state.heuristic =
                        DistanceSum(problem, Deref(bitset_cache, problem, state.crates))
                  /\ state.priority = config.h_factor * state.heuristic
                                          + config.g_factor * state.cost
        /\ free_state >= 1 =>
              state_cache[1].priority =
                  config.h_factor * DistanceSum(problem, problem.crates)

\* solve_astar, weighing the heuristic, holds a state made by a push
\* whose heuristic is not its parent's, a state made by a plain step, and a
\* state that a decrease-key of the running expansion has given a new cost
HeuristicKeptWitness ==
    /\ HeapInUse
    /\ pc = "child"
    /\ config.h_factor = 1
    /\ \E push \in Stored \ {0}, step \in Stored \ {0} :
          /\ state_cache[push + 1].crates # state_cache[state_cache[push + 1].parent + 1].crates
          /\ state_cache[push + 1].heuristic
                # state_cache[state_cache[push + 1].parent + 1].heuristic
          /\ state_cache[step + 1].crates = state_cache[state_cache[step + 1].parent + 1].crates
    /\ \E s \in Stored \ {0}, later \in Stored :
          /\ s < later
          /\ state_cache[later + 1].parent # parent
          /\ state_cache[s + 1].parent = parent
          /\ state_cache[s + 1].heap_index >= 0

(***************************************************************************)
(* Properties of the bit-vectors taken from bitset_cache                   *)
(***************************************************************************)
\* the stored states that were made by a push: the first to hold their
\* crates pointer, which is not the problem's
MadeByPush ==
    { s \in Stored :
        /\ state_cache[s + 1].crates # PROBLEM_CRATES
        /\ \A t \in Stored : t < s =>
              state_cache[t + 1].crates # state_cache[s + 1].crates }

\* the move the drivers are looking at is a push that passed every test
PushAccepted ==
    /\ pc = "child"
    /\ ~MoveCase.wall
    /\ MoveCase.pushes
    /\ ~MoveCase.blocked

\* the key of the child of the move is stored already
ChildIsDuplicate ==
    \E t \in Stored :
        KeyOf(t) = << MoveCase.player,
                      IF MoveCase.pushes
                      THEN (MoveCase.crates \ {MoveCase.player}) \cup {MoveCase.next}
                      ELSE MoveCase.crates >>

\* C36: between child generations the number of bit-vectors taken from
\* bitset_cache, free_bits / bitset_size, is the number of stored states
\* that were made by a push, and these states hold the bit-vectors below
\* free_bits, one each.  A child generation takes one bit-vector when the
\* move is an accepted push whose child is new, and none otherwise: the
\* bit-vector of a push is given back exactly when its child is a
\* duplicate.  The crates pointer of a stored state and the contents of
\* the bit-vector it points to never change.
CommitRollback ==
    /\ [](pc \in {"loop", "child"} =>
            /\ free_bits % context.bitset_size = 0
            /\ Cardinality(MadeByPush) = free_bits \div context.bitset_size
            /\ {state_cache[s + 1].crates : s \in MadeByPush}
                  = {k * context.bitset_size :
                        k \in 0 .. (free_bits \div context.bitset_size) - 1})
    /\ [][ (pc \in {"loop", "child"} /\ pc' # "fault") =>
             /\ \A s \in Stored :
                   /\ state_cache'[s + 1].crates = state_cache[s + 1].crates
                   /\ Deref(bitset_cache', problem', state_cache'[s + 1].crates)
                         = Deref(bitset_cache, problem, state_cache[s + 1].crates)
             /\ free_bits' = IF PushAccepted /\ ~ChildIsDuplicate
                             THEN free_bits + context.bitset_size
                             ELSE free_bits
         ]_vars

\* the drivers look at an accepted push whose child is a duplicate, with
\* two states made by pushes stored, the later in the last bit-vector
\* taken; the slot at free_bits holds the bit-vector of an earlier push
\* that was given back
CommitRollbackWitness ==
    /\ pc = "child"
    /\ PushAccepted
    /\ ChildIsDuplicate
    /\ Cardinality(MadeByPush) >= 2
    /\ Len(bitset_cache) > free_bits \div context.bitset_size
    /\ \E s \in MadeByPush :
          /\ state_cache[s + 1].crates = free_bits - context.bitset_size
          /\ bitset_cache[(free_bits \div context.bitset_size) + 1]
                # Deref(bitset_cache, problem, state_cache[s + 1].crates)

(***************************************************************************)
(* Properties of the parent pointers                                       *)
(***************************************************************************)
\* the state reached from "s" by following "links" parent pointers; NULL
\* when the chain ends before that
RECURSIVE Ancestor(_, _, _)
Ancestor(states, s, links) ==
    IF links = 0 THEN s
    ELSE IF states[s + 1].parent = NULL THEN NULL
    ELSE Ancestor(states, states[s + 1].parent, links - 1)

\* the move "action" made in the state "par" gives the state "state"
SingleMove(par, state) ==
    LET offset == ActionDirection(context, state.action)
        before == Deref(bitset_cache, problem, par.crates)
        after  == Deref(bitset_cache, problem, state.crates)
        player == par.player + offset
        next   == player + offset
    IN  /\ state.action \in Letters
        /\ state.player = player
        /\ ~get_bit(problem.walls, player)
        /\ IF get_bit(before, player)
           THEN /\ state.action \in PushLetters
                /\ ~get_bit(problem.walls, next)
                /\ ~get_bit(before, next)
                /\ after = (before \ {player}) \cup {next}
           ELSE /\ state.action \notin PushLetters
                /\ after = before

\* C37: in both drivers, at every point, the root has cost 0 and no
\* parent, and every other stored state s has a stored parent with s.cost
\* = s.parent.cost + 1 and is what the single move s.action makes of the
\* parent; this holds after a decrease-key of solve_astar has given a
\* state a new parent.  The parent pointers form a tree: following s.cost
\* of them from any stored state s ends at the root.
ParentTree ==
    Stored # {} =>
        /\ state_cache[1].cost = 0
        /\ state_cache[1].parent = NULL
        /\ \A s \in Stored \ {0} :
              LET state == state_cache[s + 1]
              IN  /\ state.parent \in Stored
                  /\ state.parent # s
                  /\ state.cost = state_cache[state.parent + 1].cost + 1
                  /\ SingleMove(state_cache[state.parent + 1], state)
        /\ \A s \in Stored : Ancestor(state_cache, s, state_cache[s + 1].cost) = 0

\* solve_astar holds a state, three moves or more from the root, that a
\* decrease-key of the running expansion made a child of the state being
\* expanded
ParentTreeWitness ==
    /\ HeapInUse
    /\ pc = "child"
    /\ \E s \in Stored \ {0}, later \in Stored :
          /\ s < later
          /\ state_cache[later + 1].parent # parent
          /\ state_cache[s + 1].parent = parent
          /\ state_cache[s + 1].heap_index >= 0
          /\ state_cache[s + 1].cost >= 3
          /\ state_cache[s + 1].cost = state_cache[parent + 1].cost + 1
          /\ Ancestor(state_cache, s, state_cache[s + 1].cost) = 0

(***************************************************************************)
(* Properties of the stored states                                         *)
(***************************************************************************)
\* C38: every state stored during a search has exactly goal_count crates,
\* none of them on a wall or on a cell of the deadlock map, and its player
\* on a cell that is no wall and holds no crate.
WellFormedStates ==
    \A s \in Stored :
        LET player == state_cache[s + 1].player
            crates == Deref(bitset_cache, problem, state_cache[s + 1].crates)
        IN  /\ Cardinality(crates) = problem.goal_count
            /\ crates \cap problem.walls = {}
            /\ crates \cap problem.deadlocks = {}
            /\ player \notin problem.walls
            /\ player \notin crates
            /\ crates \subseteq 0 .. context.area - 1

\* a search on a level with two crates and floor on the deadlock map has
\* stored a state in which both crates were pushed
\* off their cells and the player stands where a crate stood
WellFormedStatesWitness ==
    /\ problem.goal_count = 2
    /\ \E cell \in problem.deadlocks \ problem.walls : cell < context.area
    /\ \E s \in Stored :
          LET crates == Deref(bitset_cache, problem, state_cache[s + 1].crates)
          IN  /\ crates \cap problem.crates = {}
              /\ state_cache[s + 1].player \in problem.crates

(***************************************************************************)
(* Properties of the scratch worklists of parse_problem                    *)
(***************************************************************************)
\* C39: for every parsed level, the stack of check_reachability, on which
\* a cell may lie more than once since cells are marked when they are
\* popped, and the queue of every pass of generate_deadlock_map never hold
\* more than area entries, the size they are allocated with.
WorklistsInBounds ==
    /\ DeadlockMapMade =>
          generate_deadlock_map(context, problem).peak <= context.area
    /\ ReachabilityChecked =>
          reach_map(context, problem.walls, problem.player).peak <= context.area

\* parse_problem ran both worklists on a level: the stack held more
\* entries than a cell has neighbours, and a pass of the queue held as many
\* entries as there are cells off the deadlock map
WorklistsInBoundsWitness ==
    /\ ReachabilityChecked
    /\ reach_map(context, problem.walls, problem.player).peak > 4
    /\ generate_deadlock_map(context, problem).peak
          >= Cardinality((0 .. context.area - 1) \ problem.deadlocks)
    /\ generate_deadlock_map(context, problem).peak >= 4

(***************************************************************************)
(* Properties of the indexing of the heap                                  *)
(***************************************************************************)
\* the slots heapify_bottomup visits from "slot" up to the root
RECURSIVE SiftPath(_)
SiftPath(slot) == IF slot = 0 THEN {0} ELSE {slot} \cup SiftPath(slot \div 2)

\* the step seeds the heap with the root or inserts a new child
InsertStep ==
    /\ config'.use_astar
    /\ pc \in {"parsed", "child"}
    /\ pc' \in {"loop", "child", "done"}
    /\ heap_size' = (IF pc = "parsed" THEN 0 ELSE heap_size) + 1

\* C40 as stated: the heap of solve_astar is indexed from 1 -- whenever it
\* is not empty its minimum is at index 1, and slot 0 of min_heap never
\* holds a live element.
HeapOneBased ==
    (HeapInUse /\ heap_size > 0) =>
        /\ Len(min_heap) >= 2
        /\ state_cache[min_heap[2] + 1].heap_index = 1
        /\ \A s \in InHeap :
              state_cache[min_heap[2] + 1].priority <= state_cache[s + 1].priority
        /\ \A s \in Stored : state_cache[s + 1].heap_index # 0

\* C40, amended: the heap of solve_astar is indexed from 0 -- whenever it
\* is not empty its minimum is at index 0, a live element whose heap_index
\* is 0, and the live elements fill the slots 0 .. size - 1; heap_insert
\* places a new element at index size before sifting it up, so that it
\* ends in a slot on the way from index size to the root, the slot at
\* index size is filled, and the slots off that way keep their elements.
HeapZeroBased ==
    /\ []((HeapInUse /\ heap_size > 0) =>
            /\ min_heap[1] \in Stored
            /\ state_cache[min_heap[1] + 1].heap_index = 0
            /\ \A s \in InHeap :
                  state_cache[min_heap[1] + 1].priority <= state_cache[s + 1].priority
            /\ {state_cache[s + 1].heap_index : s \in InHeap} = 0 .. heap_size - 1)
    /\ [][ InsertStep =>
             LET size    == heap_size' - 1
                 element == IF pc = "parsed" THEN 0 ELSE free_state
             IN  /\ state_cache'[element + 1].heap_index \in SiftPath(size)
                 /\ min_heap'[state_cache'[element + 1].heap_index + 1] = element
                 /\ state_cache'[min_heap'[size + 1] + 1].heap_index = size
                 /\ \A slot \in (0 .. size - 1) \ SiftPath(size) :
                       min_heap'[slot + 1] = min_heap[slot + 1]
         ]_vars

\* solve_astar inserted a child that was sifted from the last slot up to
\* index 0, where it is the minimum, and the heap holds three more states
HeapZeroBasedWitness ==
    /\ HeapInUse
    /\ pc \in {"loop", "child"}
    /\ heap_size >= 4
    /\ min_heap[1] = free_state - 1
    /\ \A s \in InHeap \ {min_heap[1]} :
          state_cache[min_heap[1] + 1].priority < state_cache[s + 1].priority

=============================================================================
